---- MODULE Spec2Model ----
(***************************************************************************)
(* A model of the natural-language reminder parser of the reminder app     *)
(* (web/src/ReminderApp.tsx).  Text is modelled as TLA+ strings, read one  *)
(* character at a time, and every regular expression of the source is      *)
(* written as a term that a small backtracking matcher interprets the way  *)
(* ECMAScript's RegExp does (leftmost match, alternatives in order, greedy *)
(* quantifiers).                                                           *)
(***************************************************************************)
EXTENDS Integers, Sequences, FiniteSets, TLC

\* input is the text of the input box, now the clock, parsed the record the
\* last call of the parser returned and locals the locals of that call (Null
\* before the first call), prevInput, prevParsed and prevLocals those of the
\* call before it; slot is the kind of the phrase typed last and typed the
\* number of phrases typed; reminders is the list of reminders, toast the
\* message shown last and section the section getTimeSection returned last
\* for each reminder of the list
VARIABLES input, now, parsed, locals, prevInput, prevParsed, prevLocals,
          slot, typed, reminders, toast, section

(***************************************************************************)
(* Characters and strings                                                  *)
(***************************************************************************)

Digits == {"0", "1", "2", "3", "4", "5", "6", "7", "8", "9"}

LowerLetters ==
    {"a", "b", "c", "d", "e", "f", "g", "h", "i", "j", "k", "l", "m",
     "n", "o", "p", "q", "r", "s", "t", "u", "v", "w", "x", "y", "z"}

UpperLetters ==
    {"A", "B", "C", "D", "E", "F", "G", "H", "I", "J", "K", "L", "M",
     "N", "O", "P", "Q", "R", "S", "T", "U", "V", "W", "X", "Y", "Z"}

\* \s of a regular expression (the white space the inputs can hold)
SpaceChars == {" ", "\t", "\n"}

\* \w of a regular expression
WordChars == LowerLetters \cup UpperLetters \cup Digits \cup {"_"}

\* the punctuation the inputs can hold
Punctuation == {",", ":", "-", "'", ".", "!"}

\* . of a regular expression: any character but a line break
AnyChars == (WordChars \cup Punctuation \cup SpaceChars) \ {"\n"}

\* the i-th character of s, "" outside of it
CharAt(s, i) == IF i >= 1 /\ i <= Len(s) THEN SubSeq(s, i, i) ELSE ""

\* the part of s from position i to its end (String.prototype.slice(i-1))
Slice(s, i) == IF i > Len(s) THEN "" ELSE SubSeq(s, i, Len(s))

LowerMap ==
    [c \in UpperLetters |->
        CASE c = "A" -> "a" [] c = "B" -> "b" [] c = "C" -> "c" [] c = "D" -> "d"
          [] c = "E" -> "e" [] c = "F" -> "f" [] c = "G" -> "g" [] c = "H" -> "h"
          [] c = "I" -> "i" [] c = "J" -> "j" [] c = "K" -> "k" [] c = "L" -> "l"
          [] c = "M" -> "m" [] c = "N" -> "n" [] c = "O" -> "o" [] c = "P" -> "p"
          [] c = "Q" -> "q" [] c = "R" -> "r" [] c = "S" -> "s" [] c = "T" -> "t"
          [] c = "U" -> "u" [] c = "V" -> "v" [] c = "W" -> "w" [] c = "X" -> "x"
          [] c = "Y" -> "y" [] c = "Z" -> "z"]

LowerOf(c) == IF c \in UpperLetters THEN LowerMap[c] ELSE c

UpperOf(c) ==
    IF c \in LowerLetters
    THEN CHOOSE u \in UpperLetters : LowerMap[u] = c
    ELSE c

RECURSIVE ToLowerFrom(_, _)
ToLowerFrom(s, i) ==
    IF i > Len(s) THEN "" ELSE LowerOf(CharAt(s, i)) \o ToLowerFrom(s, i + 1)

\* String.prototype.toLowerCase
ToLowerCase(s) == ToLowerFrom(s, 1)

\* the positions from i on where sub stands in s
Occurrences(s, sub, i) ==
    {j \in i..(Len(s) - Len(sub) + 1) : SubSeq(s, j, j + Len(sub) - 1) = sub}

\* String.prototype.indexOf from position i, 0 for -1
IndexOfFrom(s, sub, i) ==
    IF Occurrences(s, sub, i) = {} THEN 0
    ELSE CHOOSE j \in Occurrences(s, sub, i) :
             \A k \in Occurrences(s, sub, i) : j <= k

\* String.prototype.includes
Includes(s, sub) == IndexOfFrom(s, sub, 1) # 0

RECURSIVE TrimStartFrom(_, _)
TrimStartFrom(s, i) ==
    IF i <= Len(s) /\ CharAt(s, i) \in SpaceChars THEN TrimStartFrom(s, i + 1)
    ELSE Slice(s, i)

RECURSIVE TrimEndTo(_, _)
TrimEndTo(s, j) ==
    IF j >= 1 /\ CharAt(s, j) \in SpaceChars THEN TrimEndTo(s, j - 1)
    ELSE IF j < 1 THEN "" ELSE SubSeq(s, 1, j)

\* String.prototype.trim
Trim(s) == TrimStartFrom(TrimEndTo(s, Len(s)), 1)

\* String.prototype.padStart(2, "0")
PadStart2(s) == IF Len(s) = 0 THEN "00" ELSE IF Len(s) = 1 THEN "0" \o s ELSE s

DigitValue(c) ==
    CASE c = "0" -> 0 [] c = "1" -> 1 [] c = "2" -> 2 [] c = "3" -> 3
      [] c = "4" -> 4 [] c = "5" -> 5 [] c = "6" -> 6 [] c = "7" -> 7
      [] c = "8" -> 8 [] c = "9" -> 9

RECURSIVE ParseIntFrom(_, _, _)
ParseIntFrom(s, i, acc) ==
    IF i > Len(s) THEN acc
    ELSE ParseIntFrom(s, i + 1, acc * 10 + DigitValue(CharAt(s, i)))

\* parseInt of a string of decimal digits (the only use the parser makes)
ParseInt(s) == ParseIntFrom(s, 1, 0)

(***************************************************************************)
(* Regular expressions.  A term is a record with a tag t:                  *)
(*   Lit(w) the characters of w            Cls(S) one character of set S   *)
(*   Cat(<<..>>) concatenation             Alt(<<..>>) ordered alternation *)
(*   Star/Plus/Opt(r) greedy quantifiers   Rep(r, m, n)  r{m,n}            *)
(*   Grp(k, r) capture group k             WB \b    BOL ^    EOL $         *)
(* Every regular expression of the source carries the i flag or is applied *)
(* to lower-cased text; the matcher is given lower-cased text and the      *)
(* terms are written in lower case.                                        *)
(***************************************************************************)

Lit(w) == [t |-> "lit", w |-> w]
Cls(S) == [t |-> "cls", S |-> S]
Cat(rs) == [t |-> "cat", rs |-> rs]
Alt(rs) == [t |-> "alt", rs |-> rs]
Star(r) == [t |-> "star", r |-> r]
Opt(r) == [t |-> "opt", r |-> r]
Rep(r, m, n) == [t |-> "rep", r |-> r, m |-> m, n |-> n]
Grp(k, r) == [t |-> "grp", k |-> k, r |-> r]
WB == [t |-> "wb"]
BOL == [t |-> "bol"]
EOL == [t |-> "eol"]
Plus(r) == Cat(<<r, Star(r)>>)

\* an alternation of literal words, in the order written
Words(ws) == Alt([k \in 1..Len(ws) |-> Lit(ws[k])])

\* \d and \s
DIGIT == Cls(Digits)
SPACE == Cls(SpaceChars)

\* Math.min
Min(a, b) == IF a < b THEN a ELSE b

\* no capture group has taken part (the patterns have at most three)
NoCaps == [k \in 1..3 |-> <<0, 0>>]

\* \b holds between positions i-1 and i
AtWordBoundary(s, i) ==
    (CharAt(s, i - 1) \in WordChars) # (CharAt(s, i) \in WordChars)

Fail == [found |-> FALSE, e |-> 0, c |-> NoCaps]

RECURSIVE Run(_, _, _, _)
\* The backtracking matcher.  todo is the sequence of terms still to match
\* against s from position i on, c the captures so far; the result is the
\* first way the whole of todo matches, with the position after it.  The
\* terms "more", "altFrom", "grpEnd" only arise while matching: the loop of a
\* star from its start i, the alternatives from the j-th on, the end of a
\* capture group that began at i.
Run(todo, s, i, c) ==
    IF todo = <<>> THEN [found |-> TRUE, e |-> i, c |-> c]
    ELSE
    LET r == Head(todo)
        rest == Tail(todo)
    IN  CASE r.t = "lit" ->
               IF i + Len(r.w) - 1 <= Len(s)
                  /\ SubSeq(s, i, i + Len(r.w) - 1) = r.w
               THEN Run(rest, s, i + Len(r.w), c) ELSE Fail
          [] r.t = "cls" ->
               IF i <= Len(s) /\ SubSeq(s, i, i) \in r.S
               THEN Run(rest, s, i + 1, c) ELSE Fail
          [] r.t = "cat" -> Run(r.rs \o rest, s, i, c)
          [] r.t = "alt" ->
               \* an alternative that is a literal not standing at i fails at
               \* once: the others are tried in their order
               LET Live(a) == a.t # "lit"
                              \/ SubSeq(s, i, Min(i + Len(a.w) - 1, Len(s))) = a.w
                   live == SelectSeq(r.rs, Live)
               IN  IF live = <<>> THEN Fail
                   ELSE Run(<<[t |-> "altFrom", rs |-> live, j |-> 1]>> \o rest,
                            s, i, c)
          [] r.t = "altFrom" ->
               LET first == Run(<<r.rs[r.j]>> \o rest, s, i, c)
               IN  IF first.found \/ r.j = Len(r.rs) THEN first
                   ELSE Run(<<[r EXCEPT !.j = r.j + 1]>> \o rest, s, i, c)
          [] r.t = "star" ->
               LET again == Run(<<r.r, [t |-> "more", r |-> r, i |-> i]>>
                                \o rest, s, i, c)
               IN  IF again.found THEN again ELSE Run(rest, s, i, c)
          [] r.t = "more" ->
               IF i > r.i THEN Run(<<r.r>> \o rest, s, i, c) ELSE Fail
          [] r.t = "opt" ->
               LET with == Run(<<r.r>> \o rest, s, i, c)
               IN  IF with.found THEN with ELSE Run(rest, s, i, c)
          [] r.t = "rep" ->
               LET again ==
                     IF r.n = 0 THEN Fail
                     ELSE Run(<<r.r, Rep(r.r, IF r.m = 0 THEN 0 ELSE r.m - 1,
                                         r.n - 1)>> \o rest, s, i, c)
               IN  IF again.found \/ r.m > 0 THEN again
                   ELSE Run(rest, s, i, c)
          [] r.t = "grp" ->
               Run(<<r.r, [t |-> "grpEnd", k |-> r.k, i |-> i]>> \o rest,
                   s, i, c)
          [] r.t = "grpEnd" ->
               Run(rest, s, i, [c EXCEPT ![r.k] = <<r.i, i>>])
          [] r.t = "wb" ->
               IF AtWordBoundary(s, i) THEN Run(rest, s, i, c) ELSE Fail
          [] r.t = "bol" -> IF i = 1 THEN Run(rest, s, i, c) ELSE Fail
          [] r.t = "eol" ->
               IF i = Len(s) + 1 THEN Run(rest, s, i, c) ELSE Fail

NoMatch == [found |-> FALSE, i |-> 0, e |-> 0, c |-> NoCaps]

RECURSIVE Begins(_, _)
\* what a match of the terms rs[k..] begins with, as far as the terms tell:
\* a literal, a word boundary, or anything
Begins(rs, k) ==
    IF k > Len(rs) THEN [t |-> "any"]
    ELSE CASE rs[k].t = "lit" -> rs[k]
           [] rs[k].t = "wb" ->
                IF Begins(rs, k + 1).t = "lit" THEN Begins(rs, k + 1)
                ELSE [t |-> "wb"]
           [] rs[k].t = "cat" ->
                Begins(rs[k].rs \o SubSeq(rs, k + 1, Len(rs)), 1)
           [] rs[k].t = "grp" ->
                Begins(<<rs[k].r>> \o SubSeq(rs, k + 1, Len(rs)), 1)
           [] OTHER -> [t |-> "any"]

\* the positions of s from i on where a match that begins with b can begin,
\* in ascending order
Starts(b, s, i) ==
    LET Can(j) == CASE b.t = "lit" ->
                         SubSeq(s, j, Min(j + Len(b.w) - 1, Len(s))) = b.w
                    [] b.t = "wb" -> AtWordBoundary(s, j)
                    [] OTHER -> TRUE
    IN  SelectSeq([n \in 1..(Len(s) + 2 - i) |-> i + n - 1], Can)

RECURSIVE ExecAt(_, _, _, _)
\* the first of the positions at[k..] where r matches, and there the first
\* way the backtracking finds
ExecAt(r, s, at, k) ==
    IF k > Len(at) THEN NoMatch
    ELSE LET m == Run(<<r>>, s, at[k], NoCaps)
         IN  IF m.found
             THEN [found |-> TRUE, i |-> at[k], e |-> m.e, c |-> m.c]
             ELSE ExecAt(r, s, at, k + 1)

\* RegExp.prototype.exec from position i on: the leftmost match
ExecFrom(r, s, i) ==
    IF i > Len(s) + 1 THEN NoMatch
    ELSE ExecAt(r, s, Starts(Begins(<<r>>, 1), s, i), 1)

\* String.prototype.match without the g flag
Match(r, s) == ExecFrom(r, s, 1)

\* RegExp.prototype.test
Test(r, s) == Match(r, s).found

\* capture group k of match m on string s ("" when the group did not take part)
Group(m, s, k) ==
    IF m.c[k][1] = 0 THEN "" ELSE SubSeq(s, m.c[k][1], m.c[k][2] - 1)

RECURSIVE ReplaceFrom(_, _, _, _, _)
\* text with every match of r replaced by rep; low is the lower-cased text
\* the matcher reads
ReplaceFrom(r, text, low, rep, i) ==
    IF i > Len(text) THEN ""
    ELSE LET m == ExecFrom(r, low, i)
         IN  IF ~m.found THEN Slice(text, i)
             ELSE IF m.e = m.i
             THEN SubSeq(text, i, m.i - 1) \o rep \o CharAt(text, m.i)
                  \o ReplaceFrom(r, text, low, rep, m.i + 1)
             ELSE SubSeq(text, i, m.i - 1) \o rep
                  \o ReplaceFrom(r, text, low, rep, m.e)

\* String.prototype.replace(/r/gi, rep)
ReplaceAll(r, text, rep) == ReplaceFrom(r, text, ToLowerCase(text), rep, 1)

(***************************************************************************)
(* Dates.  A Date is [ok, day, mins]: the local day number counted from    *)
(* 1970-01-01 and the minute of that day; ok is FALSE for an Invalid Date. *)
(* Local time is taken at a fixed offset from UTC.                         *)
(***************************************************************************)

InvalidDate == [ok |-> FALSE, day |-> 0, mins |-> 0]

\* TimeClip: a time value beyond 8.64e15 ms (100,000,000 days) from the epoch
\* is an Invalid Date
MkDate(day, mins) ==
    IF day > 100000000 \/ day < -100000000
       \/ (day = 100000000 /\ mins > 0)
    THEN InvalidDate
    ELSE [ok |-> TRUE, day |-> day, mins |-> mins]

\* d.setDate(d.getDate() + n), n >= 0
AddDays(d, n) ==
    IF ~d.ok \/ n > 300000000 THEN InvalidDate ELSE MkDate(d.day + n, d.mins)

\* d.setHours(d.getHours() + n), n >= 0
AddHours(d, n) ==
    IF ~d.ok THEN InvalidDate
    ELSE LET h == (d.mins \div 60) + n
         IN  MkDate(d.day + (h \div 24), (h % 24) * 60 + (d.mins % 60))

\* Date.prototype.getDay: 0 is Sunday; 1970-01-01 was a Thursday
GetDay(d) == (d.day + 4) % 7

\* year, month (1..12) and day of the month of a day number
CivilOf(day) ==
    LET z == day + 719468
        era == z \div 146097
        doe == z - era * 146097
        yoe == (doe - (doe \div 1460) + (doe \div 36524) - (doe \div 146096)) \div 365
        doy == doe - (365 * yoe + (yoe \div 4) - (yoe \div 100))
        mp == (5 * doy + 2) \div 153
        dd == doy - ((153 * mp + 2) \div 5) + 1
        mm == IF mp < 10 THEN mp + 3 ELSE mp - 9
        yy == yoe + era * 400 + (IF mm <= 2 THEN 1 ELSE 0)
    IN  [y |-> yy, m |-> mm, d |-> dd]

\* formatLocalDate: year, zero-padded month and day of the month
formatLocalDate(d) ==
    IF ~d.ok THEN "NaN-NaN-NaN"
    ELSE LET c == CivilOf(d.day)
         IN  ToString(c.y) \o "-" \o PadStart2(ToString(c.m)) \o "-"
             \o PadStart2(ToString(c.d))

\* hours and minutes of a Date as HH:MM
formatHoursMinutes(d) ==
    IF ~d.ok THEN "NaN:NaN"
    ELSE PadStart2(ToString(d.mins \div 60)) \o ":"
         \o PadStart2(ToString(d.mins % 60))

(***************************************************************************)
(* The parsed record.  An optional field is <<>> when undefined and <<v>>  *)
(* when it holds v.                                                        *)
(***************************************************************************)

Undefined == <<>>
Some(v) == <<v>>
IsSet(o) == o # <<>>

\* a word of ws between word boundaries: /\b(w1|w2|...)\b/
BWords(ws) == Cat(<<WB, Words(ws), WB>>)

AmPm == Words(<<"am", "pm">>)

(***************************************************************************)
(* Time of day (parseNaturalLanguage, the named moments and timePatterns)  *)
(***************************************************************************)

\* a conversion that adds 12 for pm and leaves 12am at 12
To24KeepsMidnight(h, ampm) == IF ampm = "pm" /\ h # 12 THEN h + 12 ELSE h

\* the 12-hour to 24-hour conversion the four handlers share
To24(h, ampm) ==
    IF ampm = "pm" /\ h # 12 THEN h + 12
    ELSE IF ampm = "am" /\ h = 12 THEN 0
    ELSE h

\* timePatterns: each regex with the groups holding hour, minutes and am/pm
\* (0: the pattern has no such group)
timePatterns ==
    << [regex |-> Cat(<<Lit("at "), Grp(1, Rep(DIGIT, 1, 2)), Lit(":"),
                        Grp(2, Rep(DIGIT, 2, 2)), Star(SPACE),
                        Opt(Grp(3, AmPm))>>),
        min |-> 2, ampm |-> 3],
       [regex |-> Cat(<<Lit("at "), Grp(1, Rep(DIGIT, 1, 2)), Star(SPACE),
                        Grp(2, AmPm)>>),
        min |-> 0, ampm |-> 2],
       [regex |-> Cat(<<Grp(1, Rep(DIGIT, 1, 2)), Lit(":"),
                        Grp(2, Rep(DIGIT, 2, 2)), Star(SPACE), Grp(3, AmPm)>>),
        min |-> 2, ampm |-> 3],
       [regex |-> Cat(<<Grp(1, Rep(DIGIT, 1, 2)), Grp(2, AmPm)>>),
        min |-> 0, ampm |-> 2] >>

\* the handler of pattern p on match m of the lower-cased input
timeHandler(p, m, lower) ==
    LET h == To24(ParseInt(Group(m, lower, 1)), Group(m, lower, p.ampm))
        min == IF p.min = 0 THEN "00" ELSE Group(m, lower, p.min)
    IN  PadStart2(ToString(h)) \o ":" \o min

\* the index of the first pattern of timePatterns that matches, 0 if none
RECURSIVE firstTimePattern(_, _)
firstTimePattern(lower, k) ==
    IF k > Len(timePatterns) THEN 0
    ELSE IF Test(timePatterns[k].regex, lower) THEN k
    ELSE firstTimePattern(lower, k + 1)

\* the named time words, tried before the numeric patterns
namedTime(lower) ==
    IF Test(BWords(<<"midnight">>), lower)
    THEN [dueTime |-> Some("00:00"), conf |-> 15]
    ELSE IF Test(Alt(<<BWords(<<"noon">>), BWords(<<"midday">>)>>), lower)
    THEN [dueTime |-> Some("12:00"), conf |-> 15]
    ELSE IF Test(Cat(<<WB, Opt(Cat(<<Lit("early"), Star(SPACE)>>)),
                       Lit("morning"), WB>>), lower)
            /\ ~Test(Lit("this morning"), lower)
    THEN [dueTime |-> Some(IF Test(Lit("early"), lower) THEN "06:00"
                           ELSE "09:00"),
          conf |-> 10]
    ELSE IF Test(BWords(<<"evening">>), lower)
    THEN [dueTime |-> Some("18:00"), conf |-> 10]
    ELSE IF Test(BWords(<<"afternoon">>), lower)
    THEN [dueTime |-> Some("14:00"), conf |-> 10]
    ELSE IF Test(BWords(<<"night">>), lower) /\ ~Test(Lit("tonight"), lower)
    THEN [dueTime |-> Some("21:00"), conf |-> 10]
    ELSE IF Test(Alt(<<BWords(<<"end of day">>), BWords(<<"eod">>)>>), lower)
    THEN [dueTime |-> Some("17:00"), conf |-> 10]
    ELSE [dueTime |-> Undefined, conf |-> 0]

\* the numeric patterns: the first that matches gives the time and +20
numericTime(lower) ==
    LET k == firstTimePattern(lower, 1)
    IN  IF k = 0 THEN [dueTime |-> Undefined, conf |-> 0]
        ELSE [dueTime |-> Some(timeHandler(timePatterns[k],
                                           Match(timePatterns[k].regex, lower),
                                           lower)),
              conf |-> 20]

\* a time step that tries the numeric patterns before the named time words
numericBeforeNamed(lower) ==
    IF IsSet(numericTime(lower).dueTime) THEN numericTime(lower)
    ELSE namedTime(lower)

\* a time step whose dueTime is not a local of the call: when the text has no
\* time, the time the call before left is still there
parseTimeKeepsLast(lower) ==
    IF IsSet(namedTime(lower).dueTime) THEN namedTime(lower)
    ELSE IF IsSet(numericTime(lower).dueTime) THEN numericTime(lower)
    ELSE [dueTime |-> IF "dueTime" \in DOMAIN locals THEN locals.dueTime
                      ELSE Undefined,
          conf |-> 0]

\* the time step: dueTime and the confidence it adds
parseTime(lower) ==
    LET named == namedTime(lower)
    IN  IF IsSet(named.dueTime) THEN named ELSE numericTime(lower)

(***************************************************************************)
(* Due date (parseNaturalLanguage, "Parse date")                           *)
(***************************************************************************)

days == <<"sunday", "monday", "tuesday", "wednesday", "thursday", "friday",
          "saturday">>
shortDays == <<"sun", "mon", "tue", "wed", "thu", "fri", "sat">>

\* new RegExp(`\\b(on\\s+)?(${days[i]}|${shortDays[i]})\\b`, 'i'), i from 0
dayRegex(i) ==
    Cat(<<WB, Opt(Cat(<<Lit("on"), Plus(SPACE)>>)),
          Words(<<days[i + 1], shortDays[i + 1]>>), WB>>)

\* the first i in 0..6 whose dayRegex matches, 7 if none
RECURSIVE firstDayName(_, _)
firstDayName(lower, i) ==
    IF i > 6 THEN 7
    ELSE IF Test(dayRegex(i), lower) THEN i
    ELSE firstDayName(lower, i + 1)

\* /in (\d+) <unit>s?/ with unit "day", "hour" or "week"
inRegex(unit) ==
    Cat(<<Lit("in "), Grp(1, Plus(DIGIT)), Lit(" "), Lit(unit), Opt(Lit("s"))>>)

\* "this weekend": today on a Saturday or Sunday, else the coming Saturday
thisWeekend(today) ==
    LET dayOfWeek == GetDay(today)
    IN  IF dayOfWeek = 0 \/ dayOfWeek = 6 THEN today
        ELSE AddDays(today, 6 - dayOfWeek)

\* the "in N days / hours / weeks" part of the last branch
relativeDate(lower, today, dueTime) ==
    LET daysMatch == Match(inRegex("day"), lower)
        hoursMatch == Match(inRegex("hour"), lower)
        weeksMatch == Match(inRegex("week"), lower)
    IN  IF daysMatch.found
        THEN [dueDate |-> formatLocalDate(
                  AddDays(today, ParseInt(Group(daysMatch, lower, 1)))),
              dueTime |-> dueTime, conf |-> 15]
        ELSE IF hoursMatch.found
        THEN LET fut == AddHours(today, ParseInt(Group(hoursMatch, lower, 1)))
             IN  [dueDate |-> formatLocalDate(fut),
                  dueTime |-> Some(formatHoursMinutes(fut)), conf |-> 15]
        ELSE IF weeksMatch.found
        THEN [dueDate |-> formatLocalDate(
                  AddDays(today, ParseInt(Group(weeksMatch, lower, 1)) * 7)),
              dueTime |-> dueTime, conf |-> 15]
        ELSE [dueDate |-> formatLocalDate(today), dueTime |-> dueTime,
              conf |-> 0]

\* the day names with a diff of 0 left at 0 whatever else the text says
dayNameNeverNextWeek(lower, today, rel) ==
    LET i == firstDayName(lower, 0)
    IN  IF i = 7 THEN rel
        ELSE [dueDate |-> formatLocalDate(
                  AddDays(today, (i - GetDay(today) + 7) % 7)),
              dueTime |-> rel.dueTime, conf |-> rel.conf + 15]

\* the day names, looked for after the "in N ..." part whatever it found
dayNameDate(lower, today, rel) ==
    LET i == firstDayName(lower, 0)
        diff0 == (i - GetDay(today) + 7) % 7
        diff == IF diff0 = 0 /\ Test(BWords(<<"next">>), lower) THEN 7
                ELSE diff0
    IN  IF i = 7 THEN rel
        ELSE [dueDate |-> formatLocalDate(AddDays(today, diff)),
              dueTime |-> rel.dueTime, conf |-> rel.conf + 15]

\* the date step: dueDate, dueTime (dueTime0 is what the time step left) and
\* the confidence it adds
parseDate(lower, today, dueTime0) ==
    LET keep == [dueDate |-> formatLocalDate(today), dueTime |-> dueTime0]
        orElse(t) == IF IsSet(dueTime0) THEN dueTime0 ELSE Some(t)
    IN  IF Includes(lower, "today")
        THEN [dueDate |-> keep.dueDate, dueTime |-> dueTime0, conf |-> 20]
        ELSE IF Includes(lower, "tonight")
        THEN [dueDate |-> keep.dueDate, dueTime |-> orElse("20:00"),
              conf |-> 20]
        ELSE IF Includes(lower, "tomorrow")
        THEN [dueDate |-> formatLocalDate(AddDays(today, 1)),
              dueTime |-> dueTime0, conf |-> 20]
        ELSE IF Includes(lower, "next week")
        THEN [dueDate |-> formatLocalDate(AddDays(today, 7)),
              dueTime |-> dueTime0, conf |-> 15]
        ELSE IF Includes(lower, "this weekend")
        THEN [dueDate |-> formatLocalDate(thisWeekend(today)),
              dueTime |-> dueTime0, conf |-> 15]
        ELSE IF Includes(lower, "this morning")
        THEN [dueDate |-> keep.dueDate, dueTime |-> orElse("09:00"),
              conf |-> 15]
        ELSE IF Includes(lower, "this afternoon")
        THEN [dueDate |-> keep.dueDate, dueTime |-> orElse("14:00"),
              conf |-> 15]
        ELSE IF Includes(lower, "this evening")
        THEN [dueDate |-> keep.dueDate, dueTime |-> orElse("18:00"),
              conf |-> 15]
        ELSE dayNameDate(lower, today,
                         relativeDate(lower, today, dueTime0))

(***************************************************************************)
(* Recurrence (parseNaturalLanguage, "Parse recurrence")                   *)
(***************************************************************************)

\* the day names of the recurrence rules, in the order the regexes list them
dayNames ==
    <<"sunday", "sun", "monday", "mon", "tuesday", "tue", "tues", "wednesday",
      "wed", "thursday", "thu", "thur", "thurs", "friday", "fri", "saturday",
      "sat">>

dayNameToNum(name) ==
    CASE name \in {"sunday", "sun"} -> 0
      [] name \in {"monday", "mon"} -> 1
      [] name \in {"tuesday", "tue", "tues"} -> 2
      [] name \in {"wednesday", "wed"} -> 3
      [] name \in {"thursday", "thu", "thur", "thurs"} -> 4
      [] name \in {"friday", "fri"} -> 5
      [] name \in {"saturday", "sat"} -> 6

\* the numbers of set ds in ascending order (Array.prototype.sort((a,b) => a-b)
\* of an array without duplicates)
RECURSIVE SortedSeq(_)
SortedSeq(ds) ==
    IF ds = {} THEN <<>>
    ELSE LET lo == CHOOSE d \in ds : \A o \in ds : d <= o
         IN  <<lo>> \o SortedSeq(ds \ {lo})

\* the day numbers dayPattern finds in text from position i on
RECURSIVE daysFoundFrom(_, _)
daysFoundFrom(text, i) ==
    LET m == ExecFrom(Cat(<<WB, Grp(1, Words(dayNames)), WB>>), text, i)
    IN  IF ~m.found THEN {}
        ELSE {dayNameToNum(Group(m, text, 1))} \cup daysFoundFrom(text, m.e)

\* extractDays: the distinct day numbers named in text, ascending
extractDays(text) == SortedSeq(daysFoundFrom(text, 1))

NoRecurrence ==
    [recurrence |-> "none", recurrenceInterval |-> Undefined,
     recurrenceUnit |-> Undefined, recurrenceDays |-> Undefined, conf |-> 0]

\* a recurrence that names its interval and leaves the unit out
RecurWithoutUnit(kind, interval, unit, conf) ==
    [recurrence |-> kind, recurrenceInterval |-> Some(interval),
     recurrenceUnit |-> Undefined, recurrenceDays |-> Undefined,
     conf |-> conf]

Recur(kind, interval, unit, conf) ==
    [recurrence |-> kind, recurrenceInterval |-> Some(interval),
     recurrenceUnit |-> Some(unit), recurrenceDays |-> Undefined,
     conf |-> conf]

\* /every\s+(\d+)\s+(day|days|week|weeks|month|months|year|years)/i
customRecurrenceRegex ==
    Cat(<<Lit("every"), Plus(SPACE), Grp(1, Plus(DIGIT)), Plus(SPACE),
          Grp(2, Words(<<"day", "days", "week", "weeks", "month", "months",
                         "year", "years">>))>>)

\* rule 1 without the names for N = 1: custom whatever N is
alwaysCustom(lower) ==
    LET m == Match(customRecurrenceRegex, lower)
        num == ParseInt(Group(m, lower, 1))
        unit == Group(m, lower, 2)
        startsWith(w) == Len(unit) >= Len(w) /\ SubSeq(unit, 1, Len(w)) = w
    IN  IF startsWith("day") THEN Recur("custom", num, "days", 15)
        ELSE IF startsWith("week") THEN Recur("custom", num, "weeks", 15)
        ELSE IF startsWith("month") THEN Recur("custom", num, "months", 15)
        ELSE Recur("custom", num, "years", 15)

\* rule 1: "every N <unit>"
customRecurrence(lower) ==
    LET m == Match(customRecurrenceRegex, lower)
        num == ParseInt(Group(m, lower, 1))
        unit == Group(m, lower, 2)
        startsWith(w) == Len(unit) >= Len(w) /\ SubSeq(unit, 1, Len(w)) = w
    IN  IF startsWith("day")
        THEN Recur(IF num = 1 THEN "daily" ELSE "custom", num, "days", 15)
        ELSE IF startsWith("week")
        THEN Recur(IF num = 1 THEN "weekly" ELSE "custom", num, "weeks", 15)
        ELSE IF startsWith("month")
        THEN Recur(IF num = 1 THEN "monthly" ELSE "custom", num, "months", 15)
        ELSE Recur(IF num = 1 THEN "yearly" ELSE "custom", num, "years", 15)

\* (\s*(,|and)\s*<day name>)
moreDays ==
    Cat(<<Star(SPACE), Words(<<",", "and">>), Star(SPACE), Words(dayNames)>>)

\* rule 2: "every <day>, <day> and <day>"
multiDayRegex ==
    Cat(<<WB, Lit("every"), Plus(SPACE), Words(dayNames), Plus(moreDays)>>)

multiDayRecurrence(lower) ==
    LET daysMatch == Match(Cat(<<Lit("every"), Plus(SPACE),
                                 Grp(1, Cat(<<Words(dayNames),
                                              Star(moreDays)>>))>>), lower)
    IN  [recurrence |-> "weekly", recurrenceInterval |-> Some(1),
         recurrenceUnit |-> Some("weeks"),
         recurrenceDays |-> IF daysMatch.found
                            THEN Some(extractDays(Group(daysMatch, lower, 1)))
                            ELSE Undefined,
         conf |-> 15]

\* rule 2b: "every <day>"
singleDayRegex ==
    Cat(<<WB, Lit("every"), Plus(SPACE), Words(dayNames), WB>>)

singleDayRecurrence(lower) ==
    LET singleDayMatch == Match(Cat(<<Lit("every"), Plus(SPACE),
                                      Grp(1, Words(dayNames)), WB>>), lower)
    IN  [recurrence |-> "weekly", recurrenceInterval |-> Some(1),
         recurrenceUnit |-> Some("weeks"),
         recurrenceDays |-> IF singleDayMatch.found
                            THEN Some(<<dayNameToNum(
                                      Group(singleDayMatch, lower, 1))>>)
                            ELSE Undefined,
         conf |-> 15]

\* /\bevery\s*<unit>\b|<w1>|<w2>.../i
everyOr(unit, ws) ==
    Alt(<<Cat(<<WB, Lit("every"), Star(SPACE), Lit(unit), WB>>), Words(ws)>>)

\* /bi-?<w>ly|every other <w>|every 2 <w>s/i
biRegex(w) ==
    Alt(<<Cat(<<Lit("bi"), Opt(Lit("-")), Lit(w), Lit("ly")>>),
          Cat(<<Lit("every other "), Lit(w)>>),
          Cat(<<Lit("every 2 "), Lit(w), Lit("s")>>)>>)

\* rule 4: recurrence inferred from what the reminder is about
semanticRecurrence(lower) ==
    IF Test(BWords(<<"birthday">>), lower) THEN Recur("yearly", 1, "years", 10)
    ELSE IF Test(BWords(<<"anniversary">>), lower)
    THEN Recur("yearly", 1, "years", 10)
    ELSE IF Test(BWords(<<"medication", "medicine", "vitamin", "vitamins",
                          "pill", "pills", "meds">>), lower)
    THEN Recur("daily", 1, "days", 8)
    ELSE IF Test(BWords(<<"rent", "mortgage">>), lower)
            /\ ~Test(Alt(<<Lit("paid"),
                           Cat(<<Lit("pay"), Star(Cls(AnyChars)), Lit("off")>>)>>),
                     lower)
    THEN Recur("monthly", 1, "months", 8)
    ELSE IF Test(BWords(<<"paycheck", "payday", "salary">>), lower)
    THEN Recur("custom", 2, "weeks", 6)
    ELSE IF Test(BWords(<<"subscription", "renewal", "renew">>), lower)
    THEN Recur("monthly", 1, "months", 6)
    ELSE IF Test(BWords(<<"trash", "garbage", "recycling", "bins">>), lower)
    THEN Recur("weekly", 1, "weeks", 8)
    ELSE IF Test(Cat(<<WB, Lit("water"), Star(SPACE),
                       Opt(Cat(<<Lit("the"), Star(SPACE)>>)),
                       Alt(<<Cat(<<Lit("plant"), Opt(Lit("s"))>>),
                             Cat(<<Lit("flower"), Opt(Lit("s"))>>),
                             Lit("garden")>>), WB>>), lower)
    THEN Recur("weekly", 1, "weeks", 6)
    ELSE IF Test(BWords(<<"gym", "workout", "exercise">>), lower)
    THEN Recur("custom", 2, "days", 5)
    ELSE IF Test(Cat(<<WB, Lit("oil"), Star(SPACE), Lit("change"), WB>>), lower)
    THEN Recur("custom", 3, "months", 6)
    ELSE IF Test(BWords(<<"haircut">>), lower)
    THEN Recur("monthly", 1, "months", 5)
    ELSE IF Test(BWords(<<"dentist">>), lower)
            /\ ~Test(Words(<<"appointment", "tomorrow", "today">>), lower)
    THEN Recur("custom", 6, "months", 5)
    ELSE NoRecurrence

\* TRUE when one of the explicit rules (1 to 3) matches
explicitRecurrence(lower) ==
    \/ Test(customRecurrenceRegex, lower)
    \/ Test(multiDayRegex, lower)
    \/ Test(singleDayRegex, lower)
    \/ Test(everyOr("day", <<"daily">>), lower)
    \/ Test(everyOr("week", <<"weekly">>), lower)
    \/ Test(everyOr("month", <<"monthly">>), lower)
    \/ Test(everyOr("year", <<"yearly", "annually">>), lower)
    \/ Test(biRegex("week"), lower)
    \/ Test(biRegex("month"), lower)

\* the rules with rule 4 moved to the front: what the subject suggests
\* decides, and the explicit rules are asked only when it suggests nothing
semanticFirst(lower) ==
    IF semanticRecurrence(lower).recurrence # "none"
    THEN semanticRecurrence(lower)
    ELSE IF Test(customRecurrenceRegex, lower) THEN customRecurrence(lower)
    ELSE IF Test(multiDayRegex, lower) THEN multiDayRecurrence(lower)
    ELSE IF Test(singleDayRegex, lower) THEN singleDayRecurrence(lower)
    ELSE IF Test(everyOr("day", <<"daily">>), lower)
    THEN Recur("daily", 1, "days", 10)
    ELSE IF Test(everyOr("week", <<"weekly">>), lower)
    THEN Recur("weekly", 1, "weeks", 10)
    ELSE IF Test(everyOr("month", <<"monthly">>), lower)
    THEN Recur("monthly", 1, "months", 10)
    ELSE IF Test(everyOr("year", <<"yearly", "annually">>), lower)
    THEN Recur("yearly", 1, "years", 10)
    ELSE IF Test(biRegex("week"), lower) THEN Recur("custom", 2, "weeks", 12)
    ELSE IF Test(biRegex("month"), lower) THEN Recur("custom", 2, "months", 12)
    ELSE NoRecurrence

\* the recurrence step: the first rule that matches decides
parseRecurrence(lower) ==
    IF Test(customRecurrenceRegex, lower) THEN customRecurrence(lower)
    ELSE IF Test(multiDayRegex, lower) THEN multiDayRecurrence(lower)
    ELSE IF Test(singleDayRegex, lower) THEN singleDayRecurrence(lower)
    ELSE IF Test(everyOr("day", <<"daily">>), lower)
    THEN Recur("daily", 1, "days", 10)
    ELSE IF Test(everyOr("week", <<"weekly">>), lower)
    THEN Recur("weekly", 1, "weeks", 10)
    ELSE IF Test(everyOr("month", <<"monthly">>), lower)
    THEN Recur("monthly", 1, "months", 10)
    ELSE IF Test(everyOr("year", <<"yearly", "annually">>), lower)
    THEN Recur("yearly", 1, "years", 10)
    ELSE IF Test(biRegex("week"), lower) THEN Recur("custom", 2, "weeks", 12)
    ELSE IF Test(biRegex("month"), lower) THEN Recur("custom", 2, "months", 12)
    ELSE semanticRecurrence(lower)

(***************************************************************************)
(* Category and priority (detectCategory, detectPriority)                  *)
(***************************************************************************)

\* the keyword groups of detectCategory, in the order they are tried
categoryRules ==
    << [category |-> "work",
        words |-> <<"meeting", "email", "report", "deadline", "project",
                    "client", "boss", "office", "presentation", "call with",
                    "sync", "standup", "review", "submit", "proposal">>],
       [category |-> "family",
        words |-> <<"mom", "dad", "mother", "father", "sister", "brother",
                    "family", "kids", "children", "son", "daughter", "wife",
                    "husband", "grandma", "grandpa", "parent", "anniversary">>],
       [category |-> "health",
        words |-> <<"doctor", "dentist", "gym", "workout", "exercise",
                    "medicine", "prescription", "appointment", "therapy",
                    "vitamin", "checkup", "hospital", "health">>],
       [category |-> "errands",
        words |-> <<"buy", "grocery", "store", "shop", "pick up", "drop off",
                    "return", "mail", "post office", "bank", "dry clean",
                    "repair">>],
       [category |-> "finance",
        words |-> <<"pay", "bill", "invoice", "tax", "budget", "investment",
                    "rent", "mortgage", "insurance", "account">>],
       [category |-> "social",
        words |-> <<"party", "dinner", "lunch", "coffee", "friend", "birthday",
                    "celebration", "event", "hangout", "catch up">>],
       [category |-> "learning",
        words |-> <<"study", "class", "course", "book", "read", "learn",
                    "homework", "exam", "test", "practice", "lesson",
                    "tutorial">>],
       [category |-> "travel",
        words |-> <<"flight", "hotel", "trip", "vacation", "travel", "pack",
                    "passport", "booking", "reservation", "airport">>],
       [category |-> "home",
        words |-> <<"clean", "laundry", "dishes", "fix", "repair", "garden",
                    "lawn", "organize", "declutter", "cook", "water plants">>] >>

RECURSIVE categoryFrom(_, _)
categoryFrom(lower, k) ==
    IF k > Len(categoryRules) THEN "other"
    ELSE IF Test(BWords(categoryRules[k].words), lower)
    THEN categoryRules[k].category
    ELSE categoryFrom(lower, k + 1)

detectCategory(text) == categoryFrom(ToLowerCase(text), 1)

\* a priority that also looks at the date: without a keyword, what is due on
\* the day of the call is high
priorityByDueDate(text, dueDate) ==
    LET lower == ToLowerCase(text)
    IN  IF Test(BWords(<<"urgent", "asap", "immediately", "critical",
                         "emergency">>), lower) THEN "urgent"
        ELSE IF Test(BWords(<<"important", "high priority", "crucial",
                              "must">>), lower) THEN "high"
        ELSE IF Test(BWords(<<"low priority", "whenever", "no rush",
                              "eventually">>), lower) THEN "low"
        ELSE IF dueDate = formatLocalDate(now) THEN "high"
        ELSE "medium"

\* the due date is passed in and not read
detectPriority(text, dueDate) ==
    LET lower == ToLowerCase(text)
    IN  IF Test(BWords(<<"urgent", "asap", "immediately", "critical",
                         "emergency">>), lower) THEN "urgent"
        ELSE IF Test(BWords(<<"important", "high priority", "crucial",
                              "must">>), lower) THEN "high"
        ELSE IF Test(BWords(<<"low priority", "whenever", "no rush",
                              "eventually">>), lower) THEN "low"
        ELSE "medium"

(***************************************************************************)
(* Title (parseNaturalLanguage, "Extract clean title")                     *)
(***************************************************************************)

fullDays == Words(days)

\* the rule of "every <unit>" in the place of the rule of "every N <unit>s"
everyWithoutN(unit) ==
    Cat(<<WB, Lit("every"), Star(SPACE), Lit(unit), WB>>)

\* /\bevery\s+\d+\s+<unit>s?\b/gi
everyN(unit) ==
    Cat(<<WB, Lit("every"), Plus(SPACE), Plus(DIGIT), Plus(SPACE), Lit(unit),
          Opt(Lit("s")), WB>>)

\* /\bevery\s*<unit>\b/gi
everyUnit(unit) == Cat(<<WB, Lit("every"), Star(SPACE), Lit(unit), WB>>)

\* /\b<a>\s+<b>\b/gi
twoWords(a, b) == Cat(<<WB, Lit(a), Plus(SPACE), Lit(b), WB>>)

\* the regular expressions of the chain of replace calls, in its order; all
\* but the last two rules of the chain remove what they match
titlePatterns ==
    << Cat(<<BOL, Lit("remind"), Plus(SPACE), Lit("me"), Plus(SPACE),
             Opt(Cat(<<Lit("to"), Plus(SPACE)>>))>>),
       Cat(<<BOL, Lit("don't"), Plus(SPACE), Lit("forget"), Plus(SPACE),
             Opt(Cat(<<Lit("to"), Plus(SPACE)>>))>>),
       Cat(<<BOL, Lit("i"), Plus(SPACE), Lit("need"), Plus(SPACE), Lit("to"),
             Plus(SPACE)>>),
       Cat(<<BOL, Lit("need"), Plus(SPACE), Lit("to"), Plus(SPACE)>>),
       everyN("day"), everyN("week"), everyN("month"), everyN("year"),
       Cat(<<WB, Lit("every"), Plus(SPACE), Lit("other"), Plus(SPACE),
             Words(<<"day", "week", "month", "year">>), WB>>),
       Cat(<<WB, Lit("every"), Plus(SPACE), fullDays,
             Star(Cat(<<Star(SPACE), Words(<<",", "and">>), Star(SPACE),
                        fullDays>>))>>),
       everyUnit("day"), everyUnit("week"), everyUnit("month"),
       everyUnit("year"),
       BWords(<<"daily">>), BWords(<<"weekly">>), BWords(<<"monthly">>),
       BWords(<<"yearly">>), BWords(<<"annually">>),
       Cat(<<WB, Lit("bi"), Opt(Lit("-")), Lit("weekly"), WB>>),
       Cat(<<WB, Lit("bi"), Opt(Lit("-")), Lit("monthly"), WB>>),
       Cat(<<WB, Lit("at"), Plus(SPACE), Rep(DIGIT, 1, 2),
             Opt(Cat(<<Lit(":"), Rep(DIGIT, 2, 2)>>)), Star(SPACE), Opt(AmPm),
             WB>>),
       Cat(<<WB, Rep(DIGIT, 1, 2), Star(SPACE), AmPm, WB>>),
       BWords(<<"today">>), BWords(<<"tomorrow">>), BWords(<<"tonight">>),
       twoWords("next", "week"), twoWords("this", "weekend"),
       Cat(<<WB, Lit("in"), Plus(SPACE), Plus(DIGIT), Plus(SPACE),
             Alt(<<Cat(<<Lit("day"), Opt(Lit("s"))>>),
                   Cat(<<Lit("hour"), Opt(Lit("s"))>>),
                   Cat(<<Lit("week"), Opt(Lit("s"))>>),
                   Cat(<<Lit("month"), Opt(Lit("s"))>>)>>), WB>>),
       Cat(<<WB, Lit("on"), Plus(SPACE), fullDays, WB>>),
       BWords(<<"urgent">>), BWords(<<"asap">>), BWords(<<"immediately">>),
       BWords(<<"important">>), twoWords("high", "priority"),
       twoWords("low", "priority"), twoWords("no", "rush"),
       Cat(<<Plus(SPACE), Lit("to"), Plus(SPACE), EOL>>),
       Cat(<<BOL, Star(SPACE), Lit("to"), Plus(SPACE)>>) >>

\* the replace calls from the k-th on, applied to text
RECURSIVE stripFrom(_, _)
stripFrom(text, k) ==
    IF k > Len(titlePatterns) THEN text
    ELSE LET next == ReplaceAll(titlePatterns[k], text, "")
         IN  IF Len(next) = 0 THEN stripFrom("", k + 1)
             ELSE stripFrom(next, k + 1)

\* the whole chain: the removals, white space collapsed, trimmed
stripTitle(txt) == Trim(ReplaceAll(Plus(SPACE), stripFrom(txt, 1), " "))

\* the title left in the case it was typed in
keepCase(title) == title

\* title.charAt(0).toUpperCase() + title.slice(1)
capitalize(title) == UpperOf(CharAt(title, 1)) \o Slice(title, 2)

(***************************************************************************)
(* parseNaturalLanguage                                                    *)
(***************************************************************************)

\* the confidence local once every step has added its share
sumConfidence(title, time, date, rec, category, priority) ==
    time.conf + date.conf + rec.conf
    + (IF category # "other" THEN 15 ELSE 0)
    + (IF priority # "medium" THEN 10 ELSE 0)
    + (IF title # "" THEN 25 ELSE 0)

\* the confidence local returned as it is, without the Math.min
noClamp(confidence) == confidence

\* Math.min(confidence, 100): what is returned as confidence
clampConfidence(confidence) == Min(confidence, 100)

\* the returned record with the stripped title as it is, empty when nothing
\* is left of it
assembleStripped(txt, title, date, rec, category, priority, confidence) ==
    [title |-> IF title # "" THEN capitalize(title) ELSE "",
     dueDate |-> date.dueDate,
     dueTime |-> date.dueTime,
     priority |-> priority,
     category |-> category,
     recurrence |-> rec.recurrence,
     recurrenceInterval |-> rec.recurrenceInterval,
     recurrenceUnit |-> rec.recurrenceUnit,
     recurrenceDays |-> rec.recurrenceDays,
     confidence |-> clampConfidence(confidence)]

\* the returned record, from what the steps found: the stripped title, the
\* date step's result (which carries the time), the recurrence, category and
\* priority, and the confidence local
assemble(txt, title, date, rec, category, priority, confidence) ==
    [title |-> IF title # "" THEN capitalize(title) ELSE txt,
     dueDate |-> date.dueDate,
     dueTime |-> date.dueTime,
     priority |-> priority,
     category |-> category,
     recurrence |-> rec.recurrence,
     recurrenceInterval |-> rec.recurrenceInterval,
     recurrenceUnit |-> rec.recurrenceUnit,
     recurrenceDays |-> rec.recurrenceDays,
     confidence |-> clampConfidence(confidence)]

\* one run of the function: the record it returns, and beside it the locals
\* the record does not show: the time as the time step left it, each step's
\* share of the confidence, and the confidence before the final Math.min
finish(txt, title, time, date, rec, category, priority) ==
    [result |-> assemble(txt, title, date, rec, category, priority,
                         sumConfidence(title, time, date, rec, category,
                                       priority)),
     locals |-> [dueTime |-> time.dueTime,
                 timeConf |-> time.conf,
                 dateConf |-> date.conf,
                 recConf |-> rec.conf,
                 confidence |-> sumConfidence(title, time, date, rec,
                                              category, priority)]]

\* the date step run as if the time step had found nothing
dateWithoutTime(lower, today, time) == parseDate(lower, today, Undefined)

\* the date step run on what the time step found
timeThenDate(lower, today, time) == parseDate(lower, today, time.dueTime)

\* the steps in the order of the function body, on txt with the clock at today
runParse(txt, today) ==
    finish(txt, stripTitle(txt), parseTime(ToLowerCase(txt)),
           timeThenDate(ToLowerCase(txt), today, parseTime(ToLowerCase(txt))),
           parseRecurrence(ToLowerCase(txt)), detectCategory(txt),
           detectPriority(txt, timeThenDate(ToLowerCase(txt), today,
                                            parseTime(ToLowerCase(txt))).dueDate))

\* the record returned for txt when the clock reads today
parseNaturalLanguage(txt, today) == runParse(txt, today).result

(***************************************************************************)
(* The parser applied to what a user types                                 *)
(***************************************************************************)

vars ==
    <<input, now, parsed, locals, prevInput, prevParsed, prevLocals, slot,
      typed, reminders, toast, section>>

\* nothing parsed yet
Null == [title |-> "", null |-> TRUE]

\* the largest number of digits of an N the inputs hold
MaxDigits == 7

\* the most phrases typed after the first text
MaxPhrases == 1

\* the readings of the clock: Friday 2027-12-31 at 23:30, the last half hour
\* of a year, and Sunday 2028-02-27 at 09:15, two days before a leap day
Clocks == {MkDate(21183, 23 * 60 + 30), MkDate(21241, 9 * 60 + 15)}

RECURSIVE Nines(_)
Nines(n) == IF n = 0 THEN "" ELSE "9" \o Nines(n - 1)

\* the texts a session starts from
Bases ==
    {"", "xyz", "meeting", "take vitamins", "every 3 days", "gym at 3pm",
     "call mom today at 5pm asap"}

\* the phrases a user adds, by the kind of signal: 1 time, 2 date,
\* 3 recurrence, 4 priority and subject words
Phrases(k) ==
    CASE k = 1 -> {"at 3:30pm", "at 3pm", "3:30 pm", "3pm", "at 12am",
                   "at 9:05", "at 13pm", "at 3:75pm", "noon"}
      [] k = 2 -> {"today", "tomorrow", "monday", "this weekend",
                   "in 3 days", "in 3 days on monday", "in 30 hours",
                   "in 2 weeks", "in " \o Nines(MaxDigits) \o " days"}
      [] k = 3 -> {"every 3 days", "every 0 days", "every 01 weeks",
                   "every mon, wed", "every tues", "every sunandmon",
                   "daily"}
      [] k = 4 -> {"urgent", "vitamins", "gym"}

Join(a, b) == IF a = "" THEN b ELSE a \o " " \o b

ParseInit ==
    /\ input \in Bases
    /\ now \in Clocks
    /\ parsed = Null
    /\ locals = Null
    /\ prevInput = ""
    /\ prevParsed = Null
    /\ prevLocals = Null
    /\ slot = 0
    /\ typed = 0
    /\ reminders = <<>>
    /\ toast = Undefined
    /\ section = <<>>

\* the call returns: its record and its locals are kept
Return(run) ==
    /\ parsed' = run.result
    /\ locals' = run.locals

\* the parser is called on the text as it stands
Call ==
    /\ parsed = Null
    /\ Return(runParse(input, now))
    /\ UNCHANGED <<input, now, prevInput, prevParsed, prevLocals, slot, typed,
                   reminders, toast, section>>

\* the user adds phrase p of kind k, no kind before one already typed, and
\* the parser is called on the new text
Type(k, p) ==
    /\ parsed # Null
    /\ k >= slot
    /\ typed < MaxPhrases
    /\ input' = Join(input, p)
    /\ Return(runParse(Join(input, p), now))
    /\ prevInput' = input
    /\ prevParsed' = parsed
    /\ prevLocals' = locals
    /\ slot' = k
    /\ typed' = typed + 1
    /\ UNCHANGED <<now, reminders, toast, section>>

ParseNext == Call \/ \E k \in 1..4 : \E p \in Phrases(k) : Type(k, p)

ParseSpec == ParseInit /\ [][ParseNext]_vars

\* a second vocabulary, of named days and named moments: the texts a session
\* starts from
NamedBases ==
    {"gym", "call mom", "pay bill", "meeting at 3:30pm",
     "every 3 days buy milk"}

\* and the phrases a user adds, by the same kinds
NamedPhrases(k) ==
    CASE k = 1 -> {"midnight", "noon", "midday", "morning", "early morning",
                   "evening", "afternoon", "night", "end of day", "eod",
                   "at 3:30pm"}
      [] k = 2 -> {"on friday", "next friday", "on sunday", "next sunday",
                   "on mon", "tomorrow"}
      [] k = 3 -> {"every monday and wednesday", "every mon, wed and fri",
                   "every tues and thurs", "every 3 days", "every 1 week",
                   "every 12 months", "every 2 years"}
      [] k = 4 -> {"urgent", "important", "no rush", "critical"}

NamedInit ==
    /\ input \in NamedBases
    /\ now \in Clocks
    /\ parsed = Null
    /\ locals = Null
    /\ prevInput = ""
    /\ prevParsed = Null
    /\ prevLocals = Null
    /\ slot = 0
    /\ typed = 0
    /\ reminders = <<>>
    /\ toast = Undefined
    /\ section = <<>>

NamedNext == Call \/ \E k \in 1..4 : \E p \in NamedPhrases(k) : Type(k, p)

NamedSpec == NamedInit /\ [][NamedNext]_vars

\* a third vocabulary, of dates that set a time, recurrences by interval and
\* texts that are all signal: the texts a session starts from
DateBases ==
    {"call mom", "gym at 3pm", "every 3 days", "tomorrow at 3pm",
     "remind me to remind me to call mom"}

\* and the phrases a user adds: 1 time, 2 date, 3 recurrence
DatePhrases(k) ==
    CASE k = 1 -> {"at 3pm", "at 9:05"}
      [] k = 2 -> {"tonight", "this morning", "this afternoon",
                   "this evening", "in 2 hours", "in 3 days", "tomorrow",
                   "on friday", "in 99999999 days"}
      [] k = 3 -> {"bi-weekly", "biweekly", "every other week",
                   "every 2 weeks", "bi-monthly", "every 1 day",
                   "every 1 weeks", "every 3 months", "every 2 years",
                   "weekly"}

\* the parser is called on the title it returned; slot 5 says so
CallOnTitle ==
    /\ parsed # Null
    /\ slot < 5
    /\ typed < MaxPhrases
    /\ input' = parsed.title
    /\ Return(runParse(parsed.title, now))
    /\ prevInput' = input
    /\ prevParsed' = parsed
    /\ prevLocals' = locals
    /\ slot' = 5
    /\ typed' = typed + 1
    /\ UNCHANGED <<now, reminders, toast, section>>

DateInit ==
    /\ input \in DateBases
    /\ now \in Clocks
    /\ parsed = Null
    /\ locals = Null
    /\ prevInput = ""
    /\ prevParsed = Null
    /\ prevLocals = Null
    /\ slot = 0
    /\ typed = 0
    /\ reminders = <<>>
    /\ toast = Undefined
    /\ section = <<>>

DateNext ==
    \/ Call
    \/ \E k \in 1..3 : \E p \in DatePhrases(k) : Type(k, p)
    \/ CallOnTitle

DateSpec == DateInit /\ [][DateNext]_vars

\* calls of the parser one after another on texts of any kind, one of the
\* calls being kept to compare later calls with: the most calls in a session
MaxCalls == 3

\* the texts the parser is called on
PureTexts ==
    {"xyz", "xyz at 3pm", "gym every mon, wed", "call mom tomorrow noon",
     "pay bill in 3 days"}

\* the parser is called on text; if keep, this call is the one kept: its text
\* and record go to prevInput and prevParsed and its number to slot
CallOn(text, keep) ==
    /\ typed < MaxCalls
    /\ input' = text
    /\ Return(runParse(text, now))
    /\ typed' = typed + 1
    /\ IF keep
       THEN /\ prevInput' = text
            /\ prevParsed' = parsed'
            /\ prevLocals' = locals'
            /\ slot' = typed + 1
       ELSE UNCHANGED <<prevInput, prevParsed, prevLocals, slot>>
    /\ UNCHANGED <<now, reminders, toast, section>>

PureInit ==
    /\ input = ""
    /\ now \in Clocks
    /\ parsed = Null
    /\ locals = Null
    /\ prevInput = ""
    /\ prevParsed = Null
    /\ prevLocals = Null
    /\ slot = 0
    /\ typed = 0
    /\ reminders = <<>>
    /\ toast = Undefined
    /\ section = <<>>

PureNext == \E text \in PureTexts : \E keep \in BOOLEAN : CallOn(text, keep)

PureSpec == PureInit /\ [][PureNext]_vars

(***************************************************************************)
(* Creating reminders from the input box (createFromParsed)                *)
(***************************************************************************)

\* String.prototype.split(","): the parts of s between its commas
Split(s) ==
    LET commas == SelectSeq([i \in 1..Len(s) |-> i],
                            LAMBDA i : CharAt(s, i) = ",")
        cut == <<0>> \o commas \o <<Len(s) + 1>>
    IN  [j \in 1..(Len(commas) + 1) |->
            IF cut[j] + 1 > cut[j + 1] - 1 THEN ""
            ELSE SubSeq(s, cut[j] + 1, cut[j + 1] - 1)]

\* the parts of the text trimmed, the empty ones among them kept
segmentsWithEmpty(text) == [j \in DOMAIN Split(text) |-> Trim(Split(text)[j])]

\* input.split(",").map(s => s.trim()).filter(s => s.length > 0)
segmentsOf(text) ==
    SelectSeq([j \in DOMAIN Split(text) |-> Trim(Split(text)[j])],
              LAMBDA seg : Len(seg) > 0)

\* the reminder made of a parsed record; n stands for the id generateId
\* returns, a string no other reminder has
newReminder(p, n, clock) ==
    [id |-> n,
     title |-> p.title,
     dueDate |-> p.dueDate,
     dueTime |-> p.dueTime,
     priority |-> p.priority,
     category |-> p.category,
     recurrence |-> p.recurrence,
     recurrenceInterval |-> p.recurrenceInterval,
     recurrenceUnit |-> p.recurrenceUnit,
     recurrenceDays |-> p.recurrenceDays,
     completed |-> FALSE,
     createdAt |-> clock,
     pointsAwarded |-> 0]

dayNumToShort == <<"Sun", "Mon", "Tue", "Wed", "Thu", "Fri", "Sat">>

\* ds.map(d => dayNumToShort[d]).join(", ")
RECURSIVE joinDays(_)
joinDays(ds) ==
    IF Len(ds) = 0 THEN ""
    ELSE IF Len(ds) = 1 THEN dayNumToShort[ds[1] + 1]
    ELSE dayNumToShort[ds[1] + 1] \o ", " \o joinDays(Tail(ds))

\* formatRecurrence: the recurrence as the toast words it
formatRecurrence(r) ==
    IF r.recurrence = "none" THEN ""
    ELSE IF r.recurrence = "daily" THEN "Daily"
    ELSE IF r.recurrence = "weekly"
    THEN IF IsSet(r.recurrenceDays) /\ Len(r.recurrenceDays[1]) > 0
         THEN IF Len(r.recurrenceDays[1]) = 7 THEN "Daily"
              ELSE IF Len(r.recurrenceDays[1]) = 1
              THEN "Every " \o dayNumToShort[r.recurrenceDays[1][1] + 1]
              ELSE joinDays(r.recurrenceDays[1])
         ELSE "Weekly"
    ELSE IF r.recurrence = "monthly" THEN "Monthly"
    ELSE IF r.recurrence = "yearly" THEN "Yearly"
    ELSE IF /\ r.recurrence = "custom"
            /\ IsSet(r.recurrenceInterval) /\ r.recurrenceInterval[1] # 0
            /\ IsSet(r.recurrenceUnit)
    THEN "Every " \o ToString(r.recurrenceInterval[1]) \o " "
         \o r.recurrenceUnit[1]
    ELSE ""

\* CATEGORY_CONFIG[category].label
categoryLabel(category) == UpperOf(CharAt(category, 1)) \o Slice(category, 2)

\* the toast after one reminder was created from record p
createdToast(p) ==
    IF formatRecurrence(p) # ""
    THEN "Created " \o ToLowerCase(formatRecurrence(p)) \o " reminder!"
    ELSE "Created! Auto-categorized as " \o categoryLabel(p.category)

\* the useEffect on input: the preview is the parse of a text of more than two
\* characters and null for a shorter one
Preview(text) ==
    IF Len(text) > 2 THEN Return(runParse(text, now))
    ELSE parsed' = Null /\ locals' = Null

\* createFromParsed gives up: nothing changes but the toast
Refuse ==
    /\ toast' = Some("Type something to create a reminder")
    /\ UNCHANGED <<input, parsed, locals, reminders>>

\* the reminders news put before the reminders of the list
Prepended(news, msg) ==
    /\ reminders' = news \o reminders
    /\ input' = ""
    /\ parsed' = Null
    /\ locals' = Null
    /\ toast' = Some(msg)

\* the reminders news are appended, the input box is emptied and the preview
\* with it
Created(news, msg) ==
    /\ reminders' = reminders \o news
    /\ input' = ""
    /\ parsed' = Null
    /\ locals' = Null
    /\ toast' = Some(msg)

\* bulk mode: one reminder for each of the segments segs, each parsed on its
\* own at the time of the call
bulkCreate(segs) ==
    Created([j \in DOMAIN segs |->
                newReminder(parseNaturalLanguage(segs[j], now),
                            Len(reminders) + j, now)],
            "Created " \o ToString(Len(segs)) \o " reminders!")

\* createFromParsed; beside its effect, the text it was called on, the preview
\* it found and the length of the list it found are remembered in prevInput,
\* prevParsed and slot, and typed counts the calls
createFromParsed ==
    /\ prevInput' = input
    /\ prevParsed' = parsed
    /\ slot' = Len(reminders)
    /\ typed' = typed + 1
    /\ UNCHANGED <<now, prevLocals, section>>
    /\ IF Trim(input) = "" THEN Refuse
       ELSE IF Len(segmentsOf(input)) > 1 THEN bulkCreate(segmentsOf(input))
       ELSE IF parsed = Null \/ Trim(parsed.title) = "" THEN Refuse
       ELSE Created(<<newReminder(parsed, Len(reminders) + 1, now)>>,
                    createdToast(parsed))

\* the most calls of createFromParsed in a session
MaxSubmits == 2

\* the texts typed into the input box
SubmitTexts ==
    {"Buy milk, Call mom tomorrow 5pm", "gym, , pay bill on friday,",
     "gym every mon, wed, fri", "call mom, ", " , ", "xyz", "hi", "   "}

\* the user types text into the empty input box
Edit(text) ==
    /\ input = ""
    /\ typed < MaxSubmits
    /\ input' = text
    /\ Preview(text)
    /\ UNCHANGED <<now, prevInput, prevParsed, prevLocals, slot, typed,
                   reminders, toast, section>>

\* createFromParsed is called by the create button, which is there while
\* there is a preview, and by handleKeyDown on Enter when there is a preview
Submit ==
    /\ typed < MaxSubmits
    /\ parsed # Null
    /\ createFromParsed

SubmitInit ==
    /\ input = ""
    /\ now \in Clocks
    /\ parsed = Null
    /\ locals = Null
    /\ prevInput = ""
    /\ prevParsed = Null
    /\ prevLocals = Null
    /\ slot = 0
    /\ typed = 0
    /\ reminders = <<>>
    /\ toast = Undefined
    /\ section = <<>>

SubmitNext ==
    \/ \E text \in SubmitTexts : Edit(text)
    \/ Submit

SubmitSpec == SubmitInit /\ [][SubmitNext]_vars

\* the same with time passing: the texts typed
ClockTexts ==
    {"xyz", "nap in 2 hours", "call mom tomorrow",
     "Buy milk, Call mom tomorrow 5pm"}

\* an hour passes, once in a session, at any moment of it
Tick ==
    /\ now \in Clocks
    /\ now' = AddHours(now, 1)
    /\ UNCHANGED <<input, parsed, locals, prevInput, prevParsed, prevLocals,
                   slot, typed, reminders, toast, section>>

ClockNext ==
    \/ \E text \in ClockTexts : Edit(text)
    \/ Submit
    \/ Tick

ClockSpec == SubmitInit /\ [][ClockNext]_vars

(***************************************************************************)
(* Sections of the list (getTimeSection)                                   *)
(***************************************************************************)

\* String.prototype.split(c) for a one-character separator c
SplitAt(s, c) ==
    LET marks == SelectSeq([i \in 1..Len(s) |-> i],
                           LAMBDA i : CharAt(s, i) = c)
        cut == <<0>> \o marks \o <<Len(s) + 1>>
    IN  [j \in 1..(Len(marks) + 1) |->
            IF cut[j] + 1 > cut[j + 1] - 1 THEN ""
            ELSE SubSeq(s, cut[j] + 1, cut[j + 1] - 1)]

\* Number(s) of a string without sign, point or exponent: the number its
\* digits spell, 0 for the empty string, NaN (Undefined) for anything else
Number(s) ==
    IF \A i \in 1..Len(s) : CharAt(s, i) \in Digits THEN Some(ParseInt(s))
    ELSE Undefined

\* the day number of the day d of the month m (1..12) of the year y, days
\* beyond the end of the month running on into the next
DayOf(y, m, d) ==
    LET yy == IF m <= 2 THEN y - 1 ELSE y
        era == yy \div 400
        yoe == yy - era * 400
        mp == IF m > 2 THEN m - 3 ELSE m + 9
        doy == ((153 * mp + 2) \div 5) + d - 1
        doe == yoe * 365 + (yoe \div 4) - (yoe \div 100) + doy
    IN  era * 146097 + doe - 719468

\* parseLocalDate: new Date(year, month - 1, day) of the three numbers of
\* "YYYY-MM-DD", an Invalid Date when one of them is missing or NaN
parseLocalDate(dateStr) ==
    LET parts == SplitAt(dateStr, "-")
    IN  IF Len(parts) < 3 \/ \E j \in 1..3 : ~IsSet(Number(parts[j]))
        THEN InvalidDate
        ELSE MkDate(DayOf(Number(parts[1])[1], Number(parts[2])[1],
                          Number(parts[3])[1]), 0)

\* Date.prototype.getTime in whole seconds; a Date made without seconds is
\* at second 0 of its minute
getTime(d) ==
    (d.day * 1440 + d.mins) * 60 + (IF "secs" \in DOMAIN d THEN d.secs ELSE 0)

\* the Date of a time value in seconds
DateOfTime(t) ==
    [ok |-> TRUE, day |-> t \div 86400, mins |-> (t % 86400) \div 60,
     secs |-> t % 60]

\* Date.prototype.toISOString, the local zone taken to be UTC:
\* YYYY-MM-DDTHH:MM:SS.000Z
toISOString(d) ==
    formatLocalDate(d) \o "T" \o formatHoursMinutes(d) \o ":"
        \o PadStart2(ToString(d.secs)) \o ".000Z"

\* new Date(s) of a string toISOString made
DateOfISO(s) ==
    IF Len(s) # 24 \/ ~parseLocalDate(SubSeq(s, 1, 10)).ok THEN InvalidDate
    ELSE [ok |-> TRUE,
          day |-> parseLocalDate(SubSeq(s, 1, 10)).day,
          mins |-> ParseInt(SubSeq(s, 12, 13)) * 60
                       + ParseInt(SubSeq(s, 15, 16)),
          secs |-> ParseInt(SubSeq(s, 18, 19))]

\* the seconds a completed reminder stays in its section (60000 ms)
RecentSeconds == 60

\* isRecentlyCompleted at the time clock
isRecentlyCompleted(r, clock) ==
    IF ~r.completed \/ ~IsSet(r.completedAt) THEN FALSE
    ELSE /\ DateOfISO(r.completedAt[1]).ok
         /\ getTime(clock) - getTime(DateOfISO(r.completedAt[1]))
                < RecentSeconds

\* new Date(year, month - 1, day, hours, minutes) of the numbers of the
\* strings date and time, hours and minutes beyond a day running on
DateOfParts(date, time) ==
    LET d == SplitAt(date, "-")
        t == SplitAt(time, ":")
    IN  IF \/ Len(d) < 3 \/ Len(t) < 2
           \/ \E j \in 1..3 : ~IsSet(Number(d[j]))
           \/ \E j \in 1..2 : ~IsSet(Number(t[j]))
        THEN InvalidDate
        ELSE LET m == Number(t[1])[1] * 60 + Number(t[2])[1]
             IN  MkDate(DayOf(Number(d[1])[1], Number(d[2])[1],
                              Number(d[3])[1]) + (m \div 1440), m % 1440)

\* isOverdue with a reminder without a time due at the start of its day
overdueFromMidnight(r, clock) ==
    IF r.completed /\ ~isRecentlyCompleted(r, clock) THEN FALSE
    ELSE LET dueDateTime ==
                 DateOfParts(r.dueDate,
                             IF IsSet(r.dueTime) THEN r.dueTime[1]
                             ELSE "00:00")
         IN  dueDateTime.ok /\ getTime(dueDateTime) < getTime(clock)

\* isOverdue at the time clock
isOverdue(r, clock) ==
    IF r.completed /\ ~isRecentlyCompleted(r, clock) THEN FALSE
    ELSE LET dueDateTime ==
                 DateOfParts(r.dueDate,
                             IF IsSet(r.dueTime) /\ r.dueTime[1] # ""
                             THEN r.dueTime[1] ELSE "23:59")
         IN  dueDateTime.ok /\ getTime(dueDateTime) < getTime(clock)

\* getTimeSection at the time clock
getTimeSection(r, clock) ==
    IF r.completed /\ ~isRecentlyCompleted(r, clock) THEN "later"
    ELSE LET today == MkDate(clock.day, 0)
             tomorrow == AddDays(today, 1)
             weekEnd == AddDays(today, 7)
             dueDateOnly == parseLocalDate(r.dueDate)
         IN  IF isOverdue(r, clock) THEN "overdue"
             ELSE IF dueDateOnly.ok /\ getTime(dueDateOnly) = getTime(today)
             THEN "today"
             ELSE IF dueDateOnly.ok /\ getTime(dueDateOnly) = getTime(tomorrow)
             THEN "tomorrow"
             ELSE IF dueDateOnly.ok /\ getTime(dueDateOnly) < getTime(weekEnd)
             THEN "thisWeek"
             ELSE "later"

\* the seconds between two renderings of the list
TickSeconds == 5

\* the most renderings after the first
MaxTicks == 4

\* the clock at the first rendering: Friday 2027-12-31 23:59:45 and Sunday
\* 2028-02-27 09:14:50
SectionClocks ==
    {[ok |-> TRUE, day |-> 21183, mins |-> 23 * 60 + 59, secs |-> 45],
     [ok |-> TRUE, day |-> 21241, mins |-> 9 * 60 + 14, secs |-> 50]}

\* the days from the day of the first rendering to the due date of the
\* reminder stored, its due time, and the seconds from its completion to the
\* first rendering (Undefined: not completed)
DueOffsets == {-1, 0, 1, 2, 6, 7, 8}
DueTimes == {Undefined, Some("00:00"), Some("09:15")}
CompletedAgo == {Undefined, Some(0), Some(50), Some(55), Some(3600)}

\* a reminder of the stored list: due k days after the day of clock, at time,
\* completed ago seconds before clock
storedReminder(clock, k, time, ago) ==
    [id |-> 1,
     title |-> "Gym",
     dueDate |-> formatLocalDate(MkDate(clock.day + k, 0)),
     dueTime |-> time,
     completed |-> IsSet(ago),
     completedAt |-> IF IsSet(ago)
                     THEN Some(toISOString(DateOfTime(getTime(clock) - ago[1])))
                     ELSE Undefined,
     pointsAwarded |-> IF IsSet(ago) THEN 10 ELSE 0]

\* the first rendering of a stored list of one reminder; slot remembers the
\* seconds since its completion (0 when it is not completed) and typed counts
\* the renderings after the first
SectionInit ==
    /\ input = ""
    /\ now \in SectionClocks
    /\ parsed = Null
    /\ locals = Null
    /\ prevInput = ""
    /\ prevParsed = Null
    /\ prevLocals = Null
    /\ typed = 0
    /\ toast = Undefined
    /\ \E k \in DueOffsets, time \in DueTimes, ago \in CompletedAgo :
           /\ reminders = <<storedReminder(now, k, time, ago)>>
           /\ slot = IF IsSet(ago) THEN ago[1] ELSE 0
    /\ section = [i \in DOMAIN reminders |-> getTimeSection(reminders[i], now)]

\* the interval of 5 seconds fires and the list is rendered again:
\* getTimeSection is called on each reminder
Render ==
    /\ typed < MaxTicks
    /\ now' = DateOfTime(getTime(now) + TickSeconds)
    /\ section' = [i \in DOMAIN reminders |->
                      getTimeSection(reminders[i], now')]
    /\ typed' = typed + 1
    /\ UNCHANGED <<input, parsed, locals, prevInput, prevParsed, prevLocals,
                   slot, reminders, toast>>

SectionNext == Render

SectionSpec == SectionInit /\ [][SectionNext]_vars

(***************************************************************************)
(* Properties of the parser                                                *)
(***************************************************************************)

\* the parser has been called on the text of the input box
Called == parsed # Null

\* the last call was made on the text of the call before it with one phrase
\* added
Added == Called /\ prevParsed # Null

\* /^\d{4}-\d{2}-\d{2}$/
dateShape ==
    Cat(<<BOL, Rep(DIGIT, 4, 4), Lit("-"), Rep(DIGIT, 2, 2), Lit("-"),
          Rep(DIGIT, 2, 2), EOL>>)

IsLeapYear(y) == (y % 4 = 0 /\ y % 100 # 0) \/ y % 400 = 0

DaysInMonth(y, m) ==
    IF m = 2 THEN (IF IsLeapYear(y) THEN 29 ELSE 28)
    ELSE IF m \in {4, 6, 9, 11} THEN 30 ELSE 31

\* d is yyyy-mm-dd and that day is in the calendar
IsCalendarDate(d) ==
    /\ Test(dateShape, d)
    /\ ParseInt(SubSeq(d, 6, 7)) \in 1..12
    /\ ParseInt(SubSeq(d, 9, 10))
         \in 1..DaysInMonth(ParseInt(SubSeq(d, 1, 4)), ParseInt(SubSeq(d, 6, 7)))

\* C1: whatever the text and the clock, the dueDate returned matches
\* ^\d{4}-\d{2}-\d{2}$ and names a day of the calendar, "in N days" with a
\* very large N included.
C1_DueDateIsCalendarDate == Called => IsCalendarDate(parsed.dueDate)

\* C2: the confidence returned is an integer from 0 to 100, whatever the
\* steps added up to.
C2_ConfidenceInRange == Called => parsed.confidence \in 0..100

\* C2, its case: the steps added up to more than 100 and 100 was returned.
C2_SumAbove100 ==
    Called /\ locals.confidence > 100 /\ parsed.confidence = 100

\* the fields a text without any recognizable token leaves at their defaults
DefaultFields ==
    /\ parsed.category = "other"
    /\ parsed.priority = "medium"
    /\ parsed.recurrence = "none"
    /\ parsed.dueDate = formatLocalDate(now)
    /\ parsed.dueTime = Undefined

\* C3 as stated: for the empty text and for "xyz" the record holds the
\* defaults, confidence 0 and the raw input as title.
C3_NoTokenConfidenceZero ==
    (Called /\ input \in {"", "xyz"})
        => DefaultFields /\ parsed.confidence = 0 /\ parsed.title = input

\* C3, as the function behaves: for the empty text and for "xyz" the record
\* holds the defaults; the empty text gives confidence 0 and the empty title,
\* while "xyz" leaves a title, which is returned with its first letter in
\* upper case and counts 25 towards the confidence.
C3_NoTokenDefaults ==
    (Called /\ input \in {"", "xyz"})
        => /\ DefaultFields
           /\ input = "" => parsed.confidence = 0 /\ parsed.title = ""
           /\ input = "xyz" => parsed.confidence = 25 /\ parsed.title = "Xyz"

\* C3, its case: the parser was called on "xyz".
C3_XyzParsed ==
    Called /\ input = "xyz" /\ parsed.title = "Xyz" /\ parsed.confidence = 25

\* the recurrence fields of a returned record
RecurrenceOf(r) ==
    <<r.recurrence, r.recurrenceInterval, r.recurrenceUnit, r.recurrenceDays>>

\* C4: explicit recurrence phrasing outranks what the subject suggests: when
\* a word is added to a text that matches an explicit rule, the recurrence,
\* its interval, unit and days and the confidence it adds stay what the
\* explicit rule gave, whether or not the word is one the semantic rules
\* know ("vitamins", "gym"); and "take vitamins every 3 days" is custom, every
\* 3 days, with the 15 of the explicit rule.
C4_ExplicitOutranksSemantic ==
    /\ (Added /\ slot = 4 /\ explicitRecurrence(ToLowerCase(prevInput)))
          => /\ RecurrenceOf(parsed) = RecurrenceOf(prevParsed)
             /\ locals.recConf = prevLocals.recConf
    /\ (Called /\ input = "take vitamins every 3 days")
          => /\ RecurrenceOf(parsed)
                  = <<"custom", Some(3), Some("days"), Undefined>>
             /\ locals.recConf = 15

\* C4, its case: a word the semantic rules know was added to a text with an
\* explicit "every 3 days", and the recurrence is still every 3 days.
C4_KeywordAfterExplicit ==
    /\ Added
    /\ prevInput = "every 3 days"
    /\ input = "every 3 days vitamins"
    /\ RecurrenceOf(parsed) = <<"custom", Some(3), Some("days"), Undefined>>

\* C5: a custom recurrence comes with its interval and its unit; no
\* recurrence comes with neither, and without days.
C5_RecurrenceFieldsTogether ==
    Called =>
        /\ parsed.recurrence = "custom"
              => IsSet(parsed.recurrenceInterval) /\ IsSet(parsed.recurrenceUnit)
        /\ parsed.recurrence = "none"
              => /\ ~IsSet(parsed.recurrenceInterval)
                 /\ ~IsSet(parsed.recurrenceUnit)
                 /\ ~IsSet(parsed.recurrenceDays)

\* C5, its case: a custom recurrence was returned, with interval and unit.
C5_CustomReturned ==
    /\ Called
    /\ parsed.recurrence = "custom"
    /\ parsed.recurrenceInterval = Some(3)
    /\ parsed.recurrenceUnit = Some("days")

\* C6: a recurrenceInterval that is present is at least 1, for every N of
\* "every N <unit>", 0 and leading zeros included.
C6_IntervalPositive ==
    (Called /\ IsSet(parsed.recurrenceInterval))
        => parsed.recurrenceInterval[1] >= 1

\* ds is in strictly ascending order
StrictlyAscending(ds) == \A k \in 1..(Len(ds) - 1) : ds[k] < ds[k + 1]

\* C7: recurrenceDays, when present, is not empty, strictly ascending, holds
\* only day numbers 0..6, and comes only with a weekly recurrence of interval
\* 1 and unit weeks.
C7_RecurrenceDaysWellFormed ==
    (Called /\ IsSet(parsed.recurrenceDays))
        => /\ parsed.recurrenceDays[1] # <<>>
           /\ StrictlyAscending(parsed.recurrenceDays[1])
           /\ \A k \in 1..Len(parsed.recurrenceDays[1]) :
                  parsed.recurrenceDays[1][k] \in 0..6
           /\ parsed.recurrence = "weekly"
           /\ parsed.recurrenceInterval = Some(1)
           /\ parsed.recurrenceUnit = Some("weeks")

\* C8: a text with one more recognized phrase has a confidence at least that
\* of the text without it.
C8_ConfidenceMonotone ==
    Added => parsed.confidence >= prevParsed.confidence

\* /^\d{2}:\d{2}$/
timeShape ==
    Cat(<<BOL, Rep(DIGIT, 2, 2), Lit(":"), Rep(DIGIT, 2, 2), EOL>>)

\* t is HH:MM with the hour in 00..23 and the minute in 00..59
IsClockTime(t) ==
    /\ Test(timeShape, t)
    /\ ParseInt(SubSeq(t, 1, 2)) <= 23
    /\ ParseInt(SubSeq(t, 4, 5)) <= 59

\* C9: a dueTime that is present is HH:MM on the 24-hour clock, the hour in
\* 00..23 and the minute in 00..59, for every numeric time that can be
\* written.
C9_DueTimeIsClockTime ==
    (Called /\ IsSet(parsed.dueTime)) => IsClockTime(parsed.dueTime[1])

\* the patterns of timePatterns that match the text
MatchingPatterns ==
    {k \in 1..Len(timePatterns) :
        Test(timePatterns[k].regex, ToLowerCase(input))}

\* the hour on the 24-hour clock: 12 is added for pm unless the hour is 12,
\* and 12am is hour 0
Hour24(h, ampm) ==
    CASE ampm = "pm" /\ h # 12 -> h + 12
      [] ampm = "am" /\ h = 12 -> 0
      [] OTHER -> h

\* the time pattern k reads in the text: its hour converted, its minutes as
\* written or 00 when the pattern has none
TimeRead(k, m) ==
    PadStart2(ToString(Hour24(ParseInt(Group(m, ToLowerCase(input), 1)),
                              Group(m, ToLowerCase(input),
                                    IF k \in {1, 3} THEN 3 ELSE 2))))
    \o ":"
    \o (IF k \in {1, 3} THEN Group(m, ToLowerCase(input), 2) ELSE "00")

\* C10: when no named moment matches, the first of the four numeric patterns
\* that matches, in the order "at H:MM am/pm", "at H am/pm", "H:MM am/pm",
\* "Ham/pm", alone gives the time, with the hour converted to the 24-hour
\* clock, and adds 20 once; when none matches the time step gives no time and
\* adds nothing.  "meeting at 3:30pm" gives 15:30 and "meeting at 3pm" 15:00.
C10_FirstNumericPattern ==
    /\ (Called /\ ~IsSet(namedTime(ToLowerCase(input)).dueTime))
          => IF MatchingPatterns = {}
             THEN locals.dueTime = Undefined /\ locals.timeConf = 0
             ELSE /\ locals.timeConf = 20
                  /\ \E k \in MatchingPatterns :
                        /\ \A j \in MatchingPatterns : k <= j
                        /\ locals.dueTime
                             = Some(TimeRead(k, Match(timePatterns[k].regex,
                                                      ToLowerCase(input))))
    /\ (Called /\ input = "meeting at 3:30pm")
          => parsed.dueTime = Some("15:30")
    /\ (Called /\ input = "meeting at 3pm") => parsed.dueTime = Some("15:00")

\* C10, its case: "meeting at 3:30pm", which the first pattern and the last
\* two match, was parsed to 15:30 with 20 added.
C10_MeetingAtHalfPastThree ==
    /\ Called
    /\ input = "meeting at 3:30pm"
    /\ Cardinality(MatchingPatterns) > 1
    /\ parsed.dueTime = Some("15:30")
    /\ locals.timeConf = 20

(***************************************************************************)
(* Properties of the date step                                             *)
(***************************************************************************)

\* the text of the input box as the parser reads it
Lower == ToLowerCase(input)

\* the days of the week, 0 for Sunday, that the text names in full or by
\* their three letters
NamedDays ==
    {i \in 0..6 : Test(BWords(<<days[i + 1], shortDays[i + 1]>>), Lower)}

\* the phrases of the date rules that are tried before the weekday rule
EarlierDatePhrases ==
    {"today", "tonight", "tomorrow", "next week", "this weekend",
     "this morning", "this afternoon", "this evening"}

\* the weekday rule decides the date: a day is named and no earlier rule's
\* phrase is in the text
WeekdayDecides ==
    /\ Called
    /\ NamedDays # {}
    /\ \A p \in EarlierDatePhrases : ~Includes(Lower, p)

\* the date n days after today, as the parser writes dates
DateAfter(n) == formatLocalDate(AddDays(now, n))

\* the days from today to day i of the week: 0 is today, unless the text has
\* the word "next"
DiffTo(i) ==
    LET diff == (i - GetDay(now) + 7) % 7
    IN  IF diff = 0 /\ Test(BWords(<<"next">>), Lower) THEN 7 ELSE diff

\* C11: when the weekday rule decides the date, dueDate is today + diff for a
\* named day, diff = (targetDow - currentDow + 7) mod 7 and 7 instead of 0
\* when the text has the word "next"; so today's own weekday gives today,
\* "next" with it gives today + 7, and the date is within today..today + 7
C11_WeekdayDiff ==
    WeekdayDecides =>
        /\ \E i \in NamedDays : parsed.dueDate = DateAfter(DiffTo(i))
        /\ \E n \in 0..7 : parsed.dueDate = DateAfter(n)
        /\ NamedDays = {GetDay(now)} =>
               parsed.dueDate = DateAfter(IF Test(BWords(<<"next">>), Lower)
                                          THEN 7 ELSE 0)

\* C11: "pay bill next friday" parsed on Friday 2027-12-31 is due a week
\* later
C11_NextFridayOnFriday ==
    /\ Called
    /\ input = "pay bill next friday"
    /\ GetDay(now) = 5
    /\ parsed.dueDate = "2028-01-07"

(***************************************************************************)
(* Properties of the recurrence step                                       *)
(***************************************************************************)

\* the weekday lists "every <day>, <day> and <day>" typed in a session, with
\* the days each lists
DayLists ==
    {<<"every monday and wednesday", <<1, 3>>>>,
     <<"every mon, wed and fri", <<1, 3, 5>>>>,
     <<"every tues and thurs", <<2, 4>>>>}

\* the text ends with weekday list l, the phrase typed last, and has no
\* "every N <unit>" before it
ListTyped(l) ==
    /\ Added
    /\ slot = 3
    /\ input = Join(prevInput, l[1])
    /\ ~Includes(prevInput, "every")

\* C12: a list of two or more weekday names after "every" gives a weekly
\* recurrence, interval 1, unit weeks, on exactly the days listed
C12_ListedDays ==
    \A l \in DayLists :
        ListTyped(l) =>
            /\ parsed.recurrence = "weekly"
            /\ parsed.recurrenceInterval = Some(1)
            /\ parsed.recurrenceUnit = Some("weeks")
            /\ parsed.recurrenceDays = Some(l[2])

(***************************************************************************)
(* Properties of the category and the priority                             *)
(***************************************************************************)

\* the text has one of the words ws as a word
HasWord(ws) == Test(BWords(ws), Lower)

\* the priority the keywords of the text stand for: the urgent group before
\* the high group before the low group
KeywordPriority ==
    IF HasWord(<<"urgent", "asap", "immediately", "critical", "emergency">>)
    THEN "urgent"
    ELSE IF HasWord(<<"important", "high priority", "crucial", "must">>)
    THEN "high"
    ELSE IF HasWord(<<"low priority", "whenever", "no rush", "eventually">>)
    THEN "low"
    ELSE "medium"

\* C13: the priority is the one its keywords stand for, whatever the date and
\* the category; a time, date or recurrence phrase added leaves the priority
\* as it was, and a time, date or priority phrase added leaves the category
\* as it was
C13_KeywordsOnly ==
    /\ Called => parsed.priority = KeywordPriority
    /\ Added /\ slot \in {1, 2, 3} => parsed.priority = prevParsed.priority
    /\ Added /\ slot \in {1, 2, 4} => parsed.category = prevParsed.category

\* C13: "call mom urgent" is family and urgent
C13_CallMomUrgent ==
    /\ Called
    /\ input = "call mom urgent"
    /\ parsed.category = "family"
    /\ parsed.priority = "urgent"

(***************************************************************************)
(* Properties of createFromParsed                                          *)
(***************************************************************************)

\* the fields a reminder takes from a parsed record
ParsedFields(r) ==
    [title |-> r.title, dueDate |-> r.dueDate, dueTime |-> r.dueTime,
     priority |-> r.priority, category |-> r.category,
     recurrence |-> r.recurrence,
     recurrenceInterval |-> r.recurrenceInterval,
     recurrenceUnit |-> r.recurrenceUnit,
     recurrenceDays |-> r.recurrenceDays]

\* the texts with commas typed in a session, each with its segments between
\* the commas, trimmed, the empty ones left out
BulkTexts ==
    {<<"Buy milk, Call mom tomorrow 5pm",
       <<"Buy milk", "Call mom tomorrow 5pm">>>>,
     <<"gym, , pay bill on friday,", <<"gym", "pay bill on friday">>>>,
     <<"gym every mon, wed, fri", <<"gym every mon", "wed", "fri">>>>}

\* createFromParsed was called last on text
SubmittedOn(text) == typed > 0 /\ prevInput = text

\* C14: submitting a text with commas and k >= 2 non-empty segments creates
\* exactly k reminders, in the order of the segments, the i-th with the
\* fields of a parse of the i-th segment alone
C14_OneReminderPerSegment ==
    \A b \in BulkTexts :
        SubmittedOn(b[1]) =>
            /\ Len(reminders) = slot + Len(b[2])
            /\ \A j \in DOMAIN b[2] :
                   ParsedFields(reminders[slot + j])
                       = ParsedFields(parseNaturalLanguage(b[2][j], now))

\* C14: "Buy milk, Call mom tomorrow 5pm" submitted: two reminders, the second
\* due tomorrow at 17:00
C14_BuyMilkCallMom ==
    /\ SubmittedOn("Buy milk, Call mom tomorrow 5pm")
    /\ Len(reminders) = slot + 2
    /\ reminders[slot + 1].title = "Buy milk"
    /\ reminders[slot + 2].title = "Call mom"
    /\ reminders[slot + 2].dueDate = DateAfter(1)
    /\ reminders[slot + 2].dueTime = Some("17:00")

(***************************************************************************)
(* Properties of the title                                                 *)
(***************************************************************************)

\* the title in lower case
LowerTitle == ToLowerCase(parsed.title)

\* the "every N <unit>" phrases typed in a session, each with what would be
\* left of it were "every" alone removed
EveryNPhrases ==
    {<<"every 3 days", "3 day">>, <<"every 1 week", "1 week">>,
     <<"every 12 months", "12 month">>, <<"every 2 years", "2 year">>}

\* the text has phrase e and no weekday list, so that every "every" in it
\* begins an "every N <unit>" phrase
EveryNOnly(e) ==
    /\ Called
    /\ Includes(Lower, e[1])
    /\ \A l \in DayLists : ~Includes(Lower, l[1])

\* C15: an "every N <unit>" phrase is removed from the title as a whole: the
\* title has neither "every" nor the "N <unit>" left of it
C15_EveryNStripped ==
    \A e \in EveryNPhrases :
        EveryNOnly(e) =>
            /\ ~Includes(LowerTitle, "every")
            /\ ~Includes(LowerTitle, e[2])

\* C15: "every 3 days buy milk" has the title "Buy milk"
C15_BuyMilk ==
    /\ Called
    /\ input = "every 3 days buy milk"
    /\ parsed.title = "Buy milk"

\* the phrase of kind k typed last was taken as a signal by the parse: it
\* changed the time, raised the date's share of the confidence, changed the
\* recurrence or changed the priority
Recognized(k) ==
    CASE k = 1 -> locals.timeConf > 0 /\ parsed.dueTime # prevParsed.dueTime
      [] k = 2 -> locals.dateConf > prevLocals.dateConf
      [] k = 3 -> locals.recConf > 0
                  /\ RecurrenceOf(parsed) # RecurrenceOf(prevParsed)
      [] k = 4 -> parsed.priority # prevParsed.priority

\* C16: unless the title is the raw input, it has none of the phrases that
\* the same parse took as its time, date, recurrence or priority signal
C16_TitleFreeOfSignals ==
    \A k \in 1..4 : \A p \in NamedPhrases(k) :
        (/\ Added
         /\ slot = k
         /\ input = Join(prevInput, p)
         /\ Recognized(k)
         /\ parsed.title # input)
        => ~Includes(LowerTitle, p)

(***************************************************************************)
(* Properties of the parser as a function                                  *)
(***************************************************************************)

\* the last call was made on the text of the call that was kept, with the
\* same clock
SameTextAgain == Called /\ prevParsed # Null /\ input = prevInput

NamedMoments ==
    {<<"midnight", "00:00">>, <<"noon", "12:00">>, <<"midday", "12:00">>,
     <<"morning", "09:00">>, <<"early morning", "06:00">>,
     <<"evening", "18:00">>, <<"afternoon", "14:00">>, <<"night", "21:00">>,
     <<"end of day", "17:00">>, <<"eod", "17:00">>}

\* named moment m was typed last, after a text without a named moment
MomentTyped(m) ==
    /\ Added
    /\ slot = 1
    /\ input = Join(prevInput, m[1])
    /\ \A o \in NamedMoments : ~Includes(ToLowerCase(prevInput), o[1])

\* C18: a named moment outranks the numeric times: with one in the text,
\* dueTime is the moment's time and the time adds the moment's 10 or 15, not
\* the 20 of a numeric pattern, also when the text has "at 3:30pm" as well
C18_NamedMomentFirst ==
    \A m \in NamedMoments :
        MomentTyped(m) =>
            /\ parsed.dueTime = Some(m[2])
            /\ locals.dueTime = Some(m[2])
            /\ locals.timeConf \in {10, 15}

\* C18: "meeting at 3:30pm noon" is due at 12:00 and the time adds 15
C18_NoonAfterHalfPastThree ==
    /\ Called
    /\ input = "meeting at 3:30pm noon"
    /\ prevParsed.dueTime = Some("15:30")
    /\ parsed.dueTime = Some("12:00")
    /\ locals.timeConf = 15

\* the named moments that add 10: morning, evening, afternoon and night
TenGroup == {"morning", "early morning", "evening", "afternoon", "night"}

\* C19: a named moment adds 10 to the confidence when it is of the morning,
\* evening, afternoon and night group and 15 when it is any other: midnight,
\* noon, midday, end of day and eod
C19_MomentIncrement ==
    \A m \in NamedMoments :
        MomentTyped(m) =>
            locals.timeConf = (IF m[1] \in TenGroup THEN 10 ELSE 15)

\* "in 3 days on monday" was typed last, after a text without a phrase of an
\* earlier date rule
RelativeAndWeekdayTyped ==
    /\ Added
    /\ slot = 2
    /\ input = Join(prevInput, "in 3 days on monday")
    /\ \A p \in EarlierDatePhrases : ~Includes(ToLowerCase(prevInput), p)

\* C20: one date rule decides and adds its increment once: the date adds 0,
\* 15 or 20, and a text with "in 3 days" and a weekday name is due in three
\* days, the date adding 15
C20_OneDateRule ==
    /\ Called => locals.dateConf \in {0, 15, 20}
    /\ RelativeAndWeekdayTyped =>
           /\ parsed.dueDate = DateAfter(3)
           /\ locals.dateConf = 15

(***************************************************************************)
(* Properties of the date step and the time                                *)
(***************************************************************************)

\* the phrases of the date rules before the weekday rule, in the order the
\* rules are tried, with the time each gives a text without a time
DateRules ==
    <<<<"today", Undefined>>, <<"tonight", Some("20:00")>>,
      <<"tomorrow", Undefined>>, <<"next week", Undefined>>,
      <<"this weekend", Undefined>>, <<"this morning", Some("09:00")>>,
      <<"this afternoon", Some("14:00")>>,
      <<"this evening", Some("18:00")>>>>

\* the rules whose phrase the text has
RulesMet == {r \in DOMAIN DateRules : Includes(Lower, DateRules[r][1])}

\* the time the deciding date rule gives a text without a time
DefaultTime ==
    IF RulesMet = {} THEN Undefined
    ELSE DateRules[CHOOSE r \in RulesMet : \A o \in RulesMet : r <= o][2]

\* "in 2 hours" decides the date: no earlier rule's phrase and no "in N days"
InTwoHoursDecides ==
    /\ Includes(Lower, "in 2 hours")
    /\ RulesMet = {}
    /\ ~Includes(Lower, "in 3 days")
    /\ ~Includes(Lower, "in 99999999 days")

\* C21: the date step leaves the time of the time step as it is, but for
\* "in N hours", which sets date and time to N hours from now (the date is
\* the one returned when no weekday name follows in lines 514-534); tonight,
\* this morning, this afternoon and this evening give 20:00, 09:00, 14:00 and
\* 18:00 only to a text without a time
C21_DateKeepsTime ==
    Called =>
        IF InTwoHoursDecides
        THEN /\ parsed.dueTime = Some(formatHoursMinutes(AddHours(now, 2)))
             /\ NamedDays = {} =>
                    parsed.dueDate = formatLocalDate(AddHours(now, 2))
        ELSE IF IsSet(locals.dueTime) THEN parsed.dueTime = locals.dueTime
        ELSE parsed.dueTime = DefaultTime

\* C21: "gym at 3pm tonight" stays at 15:00
C21_ThreePmTonight ==
    /\ Called
    /\ input = "gym at 3pm tonight"
    /\ locals.dueTime = Some("15:00")
    /\ parsed.dueTime = Some("15:00")

(***************************************************************************)
(* Properties of the recurrence by interval                                *)
(***************************************************************************)

\* the phrases for "every second week" and "every second month", with the
\* unit
EverySecond ==
    {<<"bi-weekly", "weeks">>, <<"biweekly", "weeks">>,
     <<"every other week", "weeks">>, <<"every 2 weeks", "weeks">>,
     <<"bi-monthly", "months">>}

\* recurrence phrase p was typed last, after a text without a recurrence
\* phrase
RecurrenceTyped(p) ==
    /\ Added
    /\ slot = 3
    /\ input = Join(prevInput, p)
    /\ ~Includes(prevInput, "every")
    /\ \A q \in DatePhrases(3) : ~Includes(prevInput, q)

\* C22: bi-weekly, biweekly, every other week and every 2 weeks give custom,
\* interval 2, unit weeks and add 12; bi-monthly gives custom, interval 2,
\* unit months and adds 12
C22_EverySecond ==
    \A e \in EverySecond :
        RecurrenceTyped(e[1]) =>
            /\ parsed.recurrence = "custom"
            /\ parsed.recurrenceInterval = Some(2)
            /\ parsed.recurrenceUnit = Some(e[2])
            /\ locals.recConf = 12

\* the "every N <unit>" phrases typed, with N, the unit in the plural and the
\* name of the recurrence
EveryNUnit ==
    {<<"every 1 day", 1, "days", "daily">>,
     <<"every 1 weeks", 1, "weeks", "weekly">>,
     <<"every 2 weeks", 2, "weeks", "custom">>,
     <<"every 3 months", 3, "months", "custom">>,
     <<"every 2 years", 2, "years", "custom">>}

\* the unit that goes with a named recurrence
UnitOf(kind) ==
    CASE kind = "daily" -> "days"
      [] kind = "weekly" -> "weeks"
      [] kind = "monthly" -> "months"
      [] kind = "yearly" -> "years"

\* C23: "every N <unit>" gives interval N and the unit in the plural, the
\* recurrence daily, weekly, monthly or yearly when N is 1 and custom when it
\* is not, and adds 15; and every record that is daily, weekly, monthly or
\* yearly has interval 1 and the unit that goes with it
C23_EveryNUnit ==
    /\ \A e \in EveryNUnit :
           RecurrenceTyped(e[1]) =>
               /\ parsed.recurrenceInterval = Some(e[2])
               /\ parsed.recurrenceUnit = Some(e[3])
               /\ parsed.recurrence = e[4]
               /\ locals.recConf = 15
    /\ Called /\ parsed.recurrence \in {"daily", "weekly", "monthly", "yearly"}
           => /\ parsed.recurrenceInterval = Some(1)
              /\ parsed.recurrenceUnit = Some(UnitOf(parsed.recurrence))

\* C23: "call mom every 1 weeks" is weekly, every 1 weeks
C23_EveryOneWeeks ==
    /\ Called
    /\ input = "call mom every 1 weeks"
    /\ parsed.recurrence = "weekly"
    /\ parsed.recurrenceInterval = Some(1)
    /\ parsed.recurrenceUnit = Some("weeks")
    /\ locals.recConf = 15

(***************************************************************************)
(* Properties of the title and its share of the confidence                 *)
(***************************************************************************)

\* what the title added to the confidence: the confidence local less the
\* shares of the time, the date, the recurrence, the category and the
\* priority
TitleShare ==
    locals.confidence - locals.timeConf - locals.dateConf - locals.recConf
    - (IF parsed.category # "other" THEN 15 ELSE 0)
    - (IF parsed.priority # "medium" THEN 10 ELSE 0)

\* C24: a title that stripping leaves non-empty has its first character in
\* upper case and adds 25; when stripping leaves nothing the title is the raw
\* input and nothing is added; so the title of a text that is not blank is
\* not blank.  "tomorrow at 3pm" is all signal, "call mom" is none.
C24_TitleOrRawInput ==
    Called =>
        /\ \/ TitleShare = 25 /\ parsed.title # ""
              /\ CharAt(parsed.title, 1) \notin LowerLetters
           \/ TitleShare = 0 /\ parsed.title = input
        /\ Trim(input) # "" => Trim(parsed.title) # ""
        /\ input = "tomorrow at 3pm" => TitleShare = 0
        /\ input = "call mom" => TitleShare = 25 /\ parsed.title = "Call mom"

\* C24: "tomorrow at 3pm" comes back as its own title, the title adding
\* nothing to the 20 of the time and the 20 of the date
C24_AllSignal ==
    /\ Called
    /\ input = "tomorrow at 3pm"
    /\ parsed.title = "tomorrow at 3pm"
    /\ parsed.confidence = 40

\* C25: stripping the title is idempotent: the parser called on a title it
\* returned returns that title again
C25_TitleIdempotent == Called /\ slot = 5 => parsed.title = prevParsed.title

(***************************************************************************)
(* Properties of createFromParsed and the clock                            *)
(***************************************************************************)

\* the texts submitted, each with the texts its reminders are parsed from:
\* the segments of a text with several, the whole text otherwise
SubmittedParts ==
    BulkTexts \cup {<<"xyz", <<"xyz">>>>,
                    <<"nap in 2 hours", <<"nap in 2 hours">>>>,
                    <<"call mom tomorrow", <<"call mom tomorrow">>>>}

\* C26: a reminder created by a submit has the dueDate and dueTime of a
\* parse made with the clock of the submit, whether the text has one segment
\* or several
C26_ParsedAtSubmit ==
    \A b \in SubmittedParts :
        SubmittedOn(b[1]) /\ Len(reminders) = slot + Len(b[2]) =>
            \A j \in DOMAIN b[2] :
                LET r == reminders[slot + j]
                    p == parseNaturalLanguage(b[2][j], r.createdAt)
                IN  r.dueDate = p.dueDate /\ r.dueTime = p.dueTime

\* C27: a weekday list with commas survives the submit: "gym every mon, wed,
\* fri" creates one weekly reminder on days 1, 3 and 5, the record the
\* preview showed
C27_ListSurvivesSubmit ==
    SubmittedOn("gym every mon, wed, fri") =>
        /\ Len(reminders) = slot + 1
        /\ reminders[slot + 1].recurrence = "weekly"
        /\ reminders[slot + 1].recurrenceDays = Some(<<1, 3, 5>>)
        /\ ParsedFields(reminders[slot + 1]) = ParsedFields(prevParsed)

\* C28: whatever the text and the clock, the dueDate returned is the date of
\* today or of a later day, never of a day in the past
C28_NeverInThePast ==
    Called =>
        /\ parseLocalDate(parsed.dueDate).ok
        /\ parseLocalDate(parsed.dueDate).day >= now.day

\* the number of reminders a call of createFromParsed on the text of the
\* input box is to create when it creates any: the number of its non-empty
\* segments when there are two or more, otherwise 1
ToCreate ==
    IF \E b \in BulkTexts : b[1] = input
    THEN Len((CHOOSE b \in BulkTexts : b[1] = input)[2])
    ELSE 1

\* createFromParsed changes nothing but the toast, and the text is blank or
\* it has a single segment and there is no preview or one with a blank title
Refused ==
    /\ UNCHANGED <<input, parsed, reminders>>
    /\ \/ Trim(input) = ""
       \/ ToCreate = 1 /\ (parsed = Null \/ Trim(parsed.title) = "")

\* createFromParsed appends k reminders, uncompleted, with no points and a
\* title that is not blank, to the list as it was, and empties the input box
\* and the preview
Appended(k) ==
    /\ Len(reminders') = Len(reminders) + k
    /\ SubSeq(reminders', 1, Len(reminders)) = reminders
    /\ \A j \in (Len(reminders) + 1)..Len(reminders') :
           /\ ~reminders'[j].completed
           /\ reminders'[j].pointsAwarded = 0
           /\ Trim(reminders'[j].title) # ""
    /\ input' = ""
    /\ parsed' = Null

\* C29: a call of createFromParsed either changes nothing but the toast (the
\* input is blank, or it has one segment and the preview is missing or has a
\* blank title) or appends exactly k uncompleted reminders with pointsAwarded
\* 0 and a non-blank title at the end of the list, k the number of non-empty
\* segments when that is 2 or more and otherwise 1, leaves the reminders
\* already there as and where they were, and resets the input to empty and
\* the preview to null
C29_RefuseOrAppend ==
    [][typed' = typed + 1 => Refused \/ Appended(ToCreate)]_vars

\* C29: "gym, , pay bill on friday," submitted with a reminder in the list
\* already: two more after it, the input empty and the preview gone
C29_TwoMoreAfterTheFirst ==
    /\ SubmittedOn("gym, , pay bill on friday,")
    /\ slot >= 1
    /\ Len(reminders) = slot + 2
    /\ reminders[slot + 2].title = "Pay bill"
    /\ input = ""
    /\ parsed = Null

(***************************************************************************)
(* Properties of getTimeSection                                            *)
(***************************************************************************)

\* the reminder of the list rendered
Shown == reminders[1]

\* the day its dueDate names, looked up among the days around today
DueDay ==
    CHOOSE k \in (now.day - 12)..(now.day + 12) :
        formatLocalDate(MkDate(k, 0)) = Shown.dueDate

\* the minute of the day it is due at
DueMinute ==
    CASE Shown.dueTime = Undefined -> 23 * 60 + 59
      [] Shown.dueTime = Some("00:00") -> 0
      [] Shown.dueTime = Some("09:15") -> 9 * 60 + 15

\* its due moment is before now
DueBeforeNow ==
    \/ DueDay < now.day
    \/ /\ DueDay = now.day
       /\ \/ DueMinute < now.mins
          \/ DueMinute = now.mins /\ now.secs > 0

\* the section of an uncompleted reminder with its dueDate and dueTime
OpenSection ==
    IF DueBeforeNow THEN "overdue"
    ELSE IF DueDay = now.day THEN "today"
    ELSE IF DueDay = now.day + 1 THEN "tomorrow"
    ELSE IF DueDay < now.day + 7 THEN "thisWeek"
    ELSE "later"

\* the seconds since its completion
SinceCompleted == slot + typed * TickSeconds

\* C30: an uncompleted reminder is in section overdue exactly when its due
\* moment (dueDate at dueTime, at 23:59 without a time) is before now, and
\* otherwise in today, tomorrow, thisWeek (due less than 7 days ahead) or
\* later by its date; a completed reminder is in the section it would be in
\* uncompleted during the 60 seconds after completedAt and in later after them
C30_SectionOfReminder ==
    section # <<>> =>
        /\ ~Shown.completed => section[1] = OpenSection
        /\ Shown.completed /\ SinceCompleted < 60 => section[1] = OpenSection
        /\ Shown.completed /\ SinceCompleted > 60 => section[1] = "later"

\* C30: a reminder due tomorrow and completed 50 seconds before the first
\* rendering, at the rendering 15 seconds later: in section later
C30_LaterAfterAMinute ==
    /\ section # <<>>
    /\ Shown.completed
    /\ slot = 50
    /\ typed = 3
    /\ OpenSection = "tomorrow"
    /\ section[1] = "later"

====
